---- MODULE Spec2Model ----
(***************************************************************************)
(* Session orchestration and credential rotation of the proxy server.      *)
(*                                                                         *)
(* Two shapes of SessionPool exist in the repository:                      *)
(*   "single"  src/server.js          one primary session, rotation on     *)
(*                                    limit errors (rotateOnLimitError,    *)
(*                                    forceRotate)                         *)
(*   "dual"    src/unnamed/part_000   active + hot standby (hotSwap)       *)
(* The variable shape says which one a behaviour runs.  Every action is    *)
(* the code that runs between two suspension points (await of I/O, of a    *)
(* timer or of a shared promise) of the single-threaded event loop.        *)
(***************************************************************************)
EXTENDS Integers, Sequences, FiniteSets, TLC

(***************************************************************************)
(* Bounds of the model                                                     *)
(***************************************************************************)
\* sessions the pool may create in one behaviour (caps sessionCounter)
MaxSessions == 4
\* calls of pool.init() made by the HTTP layer after construction
MaxInitCalls == 2
\* capability invocations that end in an error (thrown or in the result)
MaxFailures == 3
\* BrowserSession.init() calls that give up
MaxCreateFailures == 1
\* BrowserSession.init() calls that give up where the standby is followed
MaxStandbyFailures == 2

\* the concurrent callers of the Execution Guard, and what each may call:
\* safeExecute ("exec") or the streaming chat's executeStream ("stream")
Tasks == {"t1", "t2"}
Kinds == [t \in Tasks |-> IF t = "t1" THEN {"exec"} ELSE {"exec", "stream"}]

\* const MAX_RETRIES = 2 (safeExecute and executeStream)
MAX_RETRIES == 2

(***************************************************************************)
(* Strings: String.prototype.toLowerCase / includes, computed on the text  *)
(***************************************************************************)
Lower1(c) ==
    CASE c = "A" -> "a" [] c = "B" -> "b" [] c = "C" -> "c" [] c = "D" -> "d"
      [] c = "E" -> "e" [] c = "F" -> "f" [] c = "G" -> "g" [] c = "H" -> "h"
      [] c = "I" -> "i" [] c = "J" -> "j" [] c = "K" -> "k" [] c = "L" -> "l"
      [] c = "M" -> "m" [] c = "N" -> "n" [] c = "O" -> "o" [] c = "P" -> "p"
      [] c = "Q" -> "q" [] c = "R" -> "r" [] c = "S" -> "s" [] c = "T" -> "t"
      [] c = "U" -> "u" [] c = "V" -> "v" [] c = "W" -> "w" [] c = "X" -> "x"
      [] c = "Y" -> "y" [] c = "Z" -> "z" [] OTHER -> c

RECURSIVE toLowerCase(_)
toLowerCase(s) ==
    IF Len(s) = 0 THEN ""
    ELSE Lower1(SubSeq(s, 1, 1)) \o toLowerCase(SubSeq(s, 2, Len(s)))

includes(s, sub) ==
    \E i \in 1..(Len(s) - Len(sub) + 1) : SubSeq(s, i, i + Len(sub) - 1) = sub

(***************************************************************************)
(* Errors and capability results                                           *)
(***************************************************************************)
\* a JavaScript Error object: e.toString() is name + ": " + message
Err(name, message) == [name |-> name, message |-> message]
NoError == Err("", "")
errToString(e) == e.name \o ": " \o e.message

\* errors thrown by a capability invocation (page.evaluate / fn(session))
ThrownErrors ==
    { Err("Error", "insufficient_funds: quota exceeded"),
      Err("Error", "Target closed"),
      Err("Error", "Unsupported model") }

\* errors with which BrowserSession.init gives up (createSession rethrows them)
CreateErrors == { Err("Error", "Login Timeout") }

\* thrown by getSession
SessionUnavailable == Err("Error", "Session unavailable after recovery attempt")
NoSessionsAvailable == Err("Error", "No sessions available")
\* `this.active.id` with this.active === null in hotSwap
NullActive == Err("TypeError", "Cannot read properties of null (reading 'id')")

\* what fn(session) resolves to: no error field, or an error field that is a
\* string or a structured {message, name} report
Result(kind, message) == [kind |-> kind, message |-> message]
NoResult == Result("none", "")
Results ==
    { Result("ok", ""),
      Result("string", "Monthly Quota exceeded"),
      Result("object", "usage-limited-chat"),
      Result("string", "Invalid prompt") }

\* JSON.stringify(result.error)
JSONstringify(r) ==
    IF r.kind = "object"
    THEN "{\"message\":\"" \o r.message \o "\",\"name\":\"Error\"}"
    ELSE "\"" \o r.message \o "\""

\* String(result.error)
StringOf(r) == IF r.kind = "object" THEN "[object Object]" ELSE r.message

(***************************************************************************)
(* Limit detection and error classification of the Execution Guard         *)
(***************************************************************************)
\* limit signals that count "invalid" in
hasLimitSignalOrInvalid(str) ==
    \/ includes(str, "insufficient_funds")
    \/ includes(str, "usage-limited")
    \/ includes(str, "limit")
    \/ includes(str, "quota")
    \/ includes(str, "invalid")

hasLimitSignal(str) ==
    \/ includes(str, "insufficient_funds")
    \/ includes(str, "usage-limited")
    \/ includes(str, "limit")
    \/ includes(str, "quota")

\* safeExecute, src/server.js: JSON.stringify(result.error).toLowerCase()
resultLimitSingle(r) ==
    /\ r.kind \in {"string", "object"}
    /\ hasLimitSignal(toLowerCase(JSONstringify(r)))

\* safeExecute, part_000: String(result.error).toLowerCase()
resultLimitDual(r) ==
    /\ r.kind \in {"string", "object"}
    /\ hasLimitSignal(toLowerCase(StringOf(r)))

\* new Error('LIMIT_REACHED: ' + (result.error.message || JSON.stringify(result.error)))
limitReachedSingle(r) ==
    Err("Error", "LIMIT_REACHED: " \o
                 (IF r.kind = "object" /\ r.message # "" THEN r.message ELSE JSONstringify(r)))

\* new Error('LIMIT_REACHED')
limitReachedDual == Err("Error", "LIMIT_REACHED")

\* isRecoverableError of safeExecute, src/server.js
isRecoverableSingle(e) ==
    LET errStr == toLowerCase(errToString(e)) IN
    \/ includes(errStr, "limit")
    \/ includes(errStr, "quota")
    \/ includes(errStr, "429")
    \/ includes(errStr, "rate")
    \/ includes(errStr, "insufficient_funds")
    \/ includes(errStr, "usage-limited")
    \/ includes(errStr, "navigat")
    \/ includes(errStr, "protocol")
    \/ includes(errStr, "session")
    \/ includes(errStr, "target closed")

\* an isRecoverable that also takes "session" for a signal
isRecoverableDualWithSession(e) ==
    LET errStr == toLowerCase(errToString(e)) IN
    \/ includes(errStr, "limit")
    \/ includes(errStr, "quota")
    \/ includes(errStr, "429")
    \/ includes(errStr, "insufficient_funds")
    \/ includes(errStr, "navigat")
    \/ includes(errStr, "protocol")
    \/ includes(errStr, "session")
    \/ includes(errStr, "target closed")

\* isRecoverable of safeExecute, part_000
isRecoverableDual(e) ==
    LET errStr == toLowerCase(errToString(e)) IN
    \/ includes(errStr, "limit")
    \/ includes(errStr, "quota")
    \/ includes(errStr, "429")
    \/ includes(errStr, "insufficient_funds")
    \/ includes(errStr, "navigat")
    \/ includes(errStr, "protocol")
    \/ includes(errStr, "target closed")

\* isLimitError of executeStream's catch (both files)
isLimitError(e) ==
    LET errStr == toLowerCase(errToString(e)) IN
    \/ includes(errStr, "limit")
    \/ includes(errStr, "insufficient_funds")
    \/ includes(errStr, "usage-limited")
    \/ includes(errStr, "quota")

\* every error the Guard may have to classify
AllErrors ==
    ThrownErrors \cup CreateErrors \cup
    {SessionUnavailable, NoSessionsAvailable, NullActive, limitReachedDual} \cup
    {limitReachedSingle(r) : r \in Results}

\* the classifications above, tabulated over the errors and results of the model
RecoverableSingle == [e \in AllErrors |-> isRecoverableSingle(e)]
RecoverableDual == [e \in AllErrors |-> isRecoverableDual(e)]
LimitError == [e \in AllErrors |-> isLimitError(e)]
ResultLimitSingle == [r \in Results |-> resultLimitSingle(r)]
ResultLimitDual == [r \in Results |-> resultLimitDual(r)]

\* whether the text of an error / of a result's error contains "quota", in any
\* letter case
containsQuota(str) == includes(toLowerCase(str), "quota")
ErrorQuota == [e \in AllErrors |-> containsQuota(errToString(e))]
ResultQuota == [r \in Results |-> r.kind # "ok" /\ containsQuota(r.message)]

(***************************************************************************)
(* JavaScript values held in token fields                                  *)
(***************************************************************************)
Null == [t |-> "null", s |-> ""]
Str(s) == [t |-> "string", s |-> s]
Undefined == [t |-> "undefined", s |-> ""]
\* an object with the fields token, value, auth_token and one other field
\* (id); a field that is "" is absent
Obj(token, value, auth_token, id) ==
    [t |-> "object", s |-> "", token |-> token, value |-> value,
     auth_token |-> auth_token, id |-> id]

\* !v
falsy(v) == v.t \in {"null", "undefined"} \/ (v.t = "string" /\ v.s = "")

\* "name":"text" of the JSON serialization, for the fields that are present
JSONfields(o) ==
    (IF o.token # "" THEN <<"\"token\":\"" \o o.token \o "\"">> ELSE <<>>) \o
    (IF o.value # "" THEN <<"\"value\":\"" \o o.value \o "\"">> ELSE <<>>) \o
    (IF o.auth_token # "" THEN <<"\"auth_token\":\"" \o o.auth_token \o "\"">> ELSE <<>>) \o
    (IF o.id # "" THEN <<"\"id\":\"" \o o.id \o "\"">> ELSE <<>>)

RECURSIVE joinComma(_)
joinComma(fields) ==
    IF fields = <<>> THEN ""
    ELSE IF Len(fields) = 1 THEN fields[1]
    ELSE fields[1] \o "," \o joinComma(Tail(fields))

\* JSON.stringify(token) of an object
JSONstringifyObject(o) == "{" \o joinComma(JSONfields(o)) \o "}"

\* a conversion that probes value before token
tokenStrOfValueFirst(raw) ==
    IF raw.t # "object" THEN raw
    ELSE IF raw.value # "" THEN Str(raw.value)
    ELSE IF raw.token # "" THEN Str(raw.token)
    ELSE IF raw.auth_token # "" THEN Str(raw.auth_token)
    ELSE Str(JSONstringifyObject(raw))

\* token.token || token.value || token.auth_token || JSON.stringify(token) when
\* typeof token === 'object'; any other value as it is
tokenStrOf(raw) ==
    IF raw.t # "object" THEN raw
    ELSE IF raw.token # "" THEN Str(raw.token)
    ELSE IF raw.value # "" THEN Str(raw.value)
    ELSE IF raw.auth_token # "" THEN Str(raw.auth_token)
    ELSE Str(JSONstringifyObject(raw))

\* the test of SessionPool.updateToken (src/server.js) negated: the string passes
validForPool(tokenStr) ==
    ~ \/ tokenStr.t # "string"
      \/ Len(tokenStr.s) < 20
      \/ tokenStr.s = "{}"
      \/ tokenStr.s = "null"
      \/ tokenStr.s = "undefined"

\* the test of BrowserSession.waitForLogin: the string is taken as the token
validForLogin(tokenStr) ==
    /\ tokenStr.t = "string"
    /\ Len(tokenStr.s) > 20
    /\ tokenStr.s # "{}"
    /\ tokenStr.s # "null"

\* the credential the upstream page hands out to the login of session id: every
\* session registers a fresh account in a fresh incognito browser
LoginToken(id) == Str("eyJhbGciOiJIUzI1NiJ9.c2Vzc2lvbg" \o ToString(id))
LoginTokens == { LoginToken(id) : id \in 1..MaxSessions }

\* how BrowserSession.init of session id ends: logged in with the token its page
\* handed out, or given up with an error
CreateOutcomes(id) ==
    { [ok |-> TRUE, token |-> LoginToken(id), err |-> NoError] } \cup
    { [ok |-> FALSE, token |-> Null, err |-> e] : e \in CreateErrors }

(***************************************************************************)
(* BrowserSession                                                          *)
(***************************************************************************)
\* const maxRetries = 3 of BrowserSession.init
maxRetries == 3

\* the bound of the loop of waitForLogin: `for (let i = 0; i < 60; i++)` in
\* src/server.js, `i < 30` in part_000
LoginTicks(which) == IF which = "single" THEN 60 ELSE 30

\* what the model records of the performRegistration() of one execution of the
\* login loop: how often it was called, how the last call ended, in which tick,
\* and the mailbox tab of its TempMailHelper ("none": no tab was opened)
NoRegistration == [calls |-> 0, outcome |-> "", tick |-> 0, mailPage |-> "none"]

\* constructor(id, type); by is the pool operation that created the session;
\* attempt, tick and registrationAttempted are the locals of its init() and
\* waitForLogin(), phase is where its init() stands: about to launch the
\* browser of an attempt ("launch"), in the login loop ("login"), over ("done");
\* closes counts the calls of its close()
BrowserSession(id, type, by) ==
    [ id |-> id, type |-> type, status |-> "initializing", isReady |-> FALSE,
      token |-> Null, activeRequests |-> 0, browser |-> FALSE, by |-> by,
      attempt |-> 1, tick |-> 0, phase |-> "launch",
      registrationAttempted |-> FALSE, registration |-> NoRegistration,
      closes |-> 0 ]

\* init() returned: waitForLogin stored the token and marked the session ready
SessionLoggedIn(s, tok) ==
    [s EXCEPT !.token = tok, !.isReady = TRUE, !.status = "ready", !.browser = TRUE,
              !.phase = "done"]

\* an init() that gives up without marking the session
SessionInitFailedUnmarked(s) ==
    [s EXCEPT !.browser = FALSE, !.attempt = maxRetries, !.phase = "done"]

\* init() gave up after maxRetries attempts: browser closed, status 'dead'
SessionInitFailed(s) ==
    [s EXCEPT !.status = "dead", !.browser = FALSE, !.attempt = maxRetries,
              !.phase = "done"]

\* a close() that retires the session and leaves the flag as it is
SessionCloseRetiring(s) ==
    [s EXCEPT !.status = "retiring", !.browser = FALSE, !.closes = @ + 1]

\* a close() that takes a session already dead for one to bring back
SessionCloseToggling(s) ==
    [s EXCEPT !.status = IF @ = "dead" THEN "initializing" ELSE "dead",
              !.isReady = FALSE, !.browser = FALSE, !.closes = @ + 1]

\* close(): status 'dead', isReady false, browser killed
SessionClose(s) ==
    [s EXCEPT !.status = "dead", !.isReady = FALSE, !.browser = FALSE,
              !.closes = @ + 1]

(***************************************************************************)
(* TempMailHelper: the mailbox page and the address it hands out           *)
(***************************************************************************)
Chars(str) == {SubSeq(str, k, k) : k \in 1..Len(str)}
AlphaChars == Chars("abcdefghijklmnopqrstuvwxyzABCDEFGHIJKLMNOPQRSTUVWXYZ")
AlnumChars == AlphaChars \cup Chars("0123456789")
\* [a-zA-Z0-9._%+-] and [a-zA-Z0-9.-]
LocalChars == AlnumChars \cup Chars("._%+-")
DomainChars == AlnumChars \cup Chars(".-")

charAt(s, k) == IF k \in 1..Len(s) THEN SubSeq(s, k, k) ELSE ""
\* every character of s from position a to position b is in class
allIn(s, a, b, class) == \A k \in a..b : charAt(s, k) \in class
Max(S) == CHOOSE x \in S : \A y \in S : y <= x
Min(S) == CHOOSE x \in S : \A y \in S : x <= y

\* where a match of /[a-zA-Z0-9._%+-]+@[a-zA-Z0-9.-]+\.[a-zA-Z]{2,6}/ that
\* starts at position p of s ends (0: none starts there); the quantifiers are
\* greedy: the domain part gives back characters until a dot and two letters
\* follow it, and the last part takes up to six letters
matchEndAt(s, p) ==
    IF charAt(s, p) \notin LocalChars THEN 0
    ELSE LET q == Max({k \in p..Len(s) : allIn(s, p, k, LocalChars)})
         IN IF charAt(s, q + 1) # "@" THEN 0
            ELSE LET a == q + 1
                     ks == {k \in (a + 1)..Len(s) :
                               /\ allIn(s, a + 1, k, DomainChars)
                               /\ charAt(s, k + 1) = "."
                               /\ allIn(s, k + 2, k + 3, AlphaChars)}
                 IN IF ks = {} THEN 0
                    ELSE LET k == Max(ks)
                         IN Max({n \in (k + 3)..(k + 7) : allIn(s, k + 2, n, AlphaChars)})

\* rawEmail.match(...): the leftmost match, "" for null
emailMatch(s) ==
    LET starts == {p \in 1..Len(s) : matchEndAt(s, p) # 0}
    IN IF starts = {} THEN ""
       ELSE LET p == Min(starts) IN SubSeq(s, p, matchEndAt(s, p))

endsWith(s, suffix) ==
    Len(s) >= Len(suffix) /\ SubSeq(s, Len(s) - Len(suffix) + 1, Len(s)) = suffix

\* rawEmail.trim() === ''
blank(s) == \A k \in 1..Len(s) : charAt(s, k) = " "

\* a test of the address that looks for the domain anywhere in it
isGmailAnywhere(email) ==
    \/ includes(toLowerCase(email), "@gmail.com")
    \/ includes(toLowerCase(email), "@googlemail.com")

\* the test of TempMailHelper.init on the extracted address
isGmail(email) ==
    \/ endsWith(toLowerCase(email), "@gmail.com")
    \/ endsWith(toLowerCase(email), "@googlemail.com")

\* const maxAttempts = 15 of TempMailHelper.init
maxAttempts == 15

\* new TempMailHelper(browser), with the loop variable i of its init(), and
\* for the model a log: the addresses init() extracted and turned down, the
\* reloads it asked for, the address it extracted last
NewMail ==
    [ pc |-> "new", email |-> "", i |-> 0, err |-> NoError,
      rejected |-> 0, reloads |-> 0, extracted |-> "" ]

MailNavigationError == Err("TimeoutError", "Navigation timeout of 60000 ms exceeded")
MailGaveUp == Err("Error", "Could not get Gmail address from 22.do after multiple attempts")

\* init() up to its loop: the mailbox page is opened, or newPage / goto throws
mailOpen(m, ok) ==
    IF ok THEN [m EXCEPT !.pc = "polling"]
    ELSE [m EXCEPT !.pc = "failed", !.err = MailNavigationError]

\* the end of one iteration of the loop: i++, and after maxAttempts the throw
mailNextAttempt(m) ==
    IF m.i + 1 < maxAttempts THEN [m EXCEPT !.i = @ + 1]
    ELSE [m EXCEPT !.i = @ + 1, !.pc = "failed", !.err = MailGaveUp]

\* the loop over the selectors in one iteration: texts are the texts of the
\* elements found, in the order of the selectors.  An empty text and a text
\* without an address go on to the next selector; the first address found is
\* returned if it is a Gmail address, else the page is reloaded (a reload that
\* throws is caught by the loop) and the iteration is over
RECURSIVE mailScan(_, _)
mailScan(m, texts) ==
    IF texts = <<>> THEN mailNextAttempt(m)
    ELSE LET rawEmail == Head(texts)
             extractedEmail == emailMatch(rawEmail)
         IN IF rawEmail = "" \/ blank(rawEmail) \/ extractedEmail = ""
            THEN mailScan(m, Tail(texts))
            ELSE IF isGmail(extractedEmail)
            THEN [m EXCEPT !.pc = "returned", !.email = extractedEmail,
                           !.extracted = extractedEmail]
            ELSE mailNextAttempt([m EXCEPT !.rejected = @ + 1, !.reloads = @ + 1,
                                           !.extracted = extractedEmail])

\* one iteration in which mailPage.$ or evaluate throws: caught, next attempt
mailAttemptThrew(m) == mailNextAttempt(m)

(***************************************************************************)
(* State                                                                   *)
(***************************************************************************)
VARIABLES
    shape,        \* "single" | "dual": which SessionPool runs
    pool,         \* the SessionPool object (null references are 0)
    sessions,     \* the BrowserSession objects, in creation order
    pending,      \* per session: who awaits its init() ("" when it has returned)
    initSettled,  \* outcome of every init promise settled so far, by number
    rotation,     \* the rotateOnLimitError IIFE: position, promises settled, log
    retryTimers,  \* dual: pending 5 s timers of the standby re-creation
    chatStore,    \* PersistentStore: lastToken and the number of saves
    initCalls,    \* pool.init() calls made so far by the HTTP layer
    faults,       \* failed invocations and failed session inits so far, and
                  \* how many inits the behaviour lets fail
    http,         \* POST /api/auth/token: the requests so far and the last token sent;
                  \* POST /api/chat: the response cache
    tasks,        \* the Guard invocations: position and locals of each caller
    mail          \* a TempMailHelper object and the position of its init()

vars == <<shape, pool, sessions, pending, initSettled, rotation, retryTimers,
          chatStore, initCalls, faults, http, tasks, mail>>

(***************************************************************************)
(* The response cache of POST /api/chat                                    *)
(***************************************************************************)
\* const CACHE_TTL = 5 * 60 * 1000 (src/server.js), 10 * 60 * 1000 (part_000)
CACHE_TTL == IF shape = "single" THEN 5 * 60 * 1000 ELSE 10 * 60 * 1000

\* JSON.stringify of a string: quotes around it, `"` and `\` escaped
RECURSIVE escapeJson(_)
escapeJson(str) ==
    IF Len(str) = 0 THEN ""
    ELSE IF Len(str) = 1
    THEN IF str = "\"" THEN "\\\""
         ELSE IF str = "\\" THEN "\\\\"
         ELSE str
    ELSE LET half == Len(str) \div 2 IN
         escapeJson(SubSeq(str, 1, half)) \o escapeJson(SubSeq(str, half + 1, Len(str)))

\* JSON.stringify({ prompt, model }): a model that is undefined is left out
stringifyBody(body) ==
    "{\"prompt\":\"" \o escapeJson(body.prompt) \o "\""
      \o (IF body.model = Undefined THEN ""
          ELSE ",\"model\":\"" \o escapeJson(body.model.s) \o "\"")
      \o "}"

\* a number in a template literal
RECURSIVE decimal(_)
decimal(n) ==
    LET digit == SubSeq("0123456789", (n % 10) + 1, (n % 10) + 1) IN
    IF n < 10 THEN digit ELSE decimal(n \div 10) \o digit

\* str.substring(0, n)
substring0(str, n) == SubSeq(str, 1, IF Len(str) < n THEN Len(str) ELSE n)

\* getCacheKey(endpoint, body): `${endpoint}:${JSON.stringify(body)}` in
\* src/server.js, `${endpoint}:${str.length}:${str.substring(0, 100)}` in part_000
getCacheKey(endpoint, body) ==
    LET str == stringifyBody(body) IN
    IF shape = "single" THEN endpoint \o ":" \o str
    ELSE endpoint \o ":" \o decimal(Len(str)) \o ":" \o substring0(str, 100)

\* the Map responseCache as its entries in insertion order, the clock
\* (Date.now(), in ms), the chat requests handled, and what the model records
\* of the last cache lookup that was a hit
NoServed == [hit |-> FALSE, request |-> [prompt |-> "", model |-> Undefined],
             data |-> [prompt |-> "", model |-> Undefined], age |-> 0]
NewCache == [entries |-> <<>>, now |-> 0, chats |-> 0, served |-> NoServed]

\* responseCache.get(key): the place of the entry, 0 for undefined
cacheIndex(entries, key) ==
    IF \E k \in DOMAIN entries : entries[k].key = key
    THEN CHOOSE k \in DOMAIN entries : entries[k].key = key
    ELSE 0

\* responseCache.delete(key)
cacheDelete(entries, key) == SelectSeq(entries, LAMBDA en : en.key # key)

\* responseCache.set(key, value): a key that is present keeps its place
cacheSet(entries, key, value) ==
    LET k == cacheIndex(entries, key)
        en == [key |-> key, data |-> value.data, timestamp |-> value.timestamp]
    IN IF k = 0 THEN Append(entries, en) ELSE [entries EXCEPT ![k] = en]

\* getFromCache(key): the data of an entry younger than CACHE_TTL (part_000
\* moves the entry to the end of the Map); otherwise the key is deleted and
\* null returned
getFromCache(c, key) ==
    LET k == cacheIndex(c.entries, key) IN
    IF k # 0 /\ c.now - c.entries[k].timestamp < CACHE_TTL
    THEN LET cached == c.entries[k]
             moved == IF shape = "single" THEN c.entries
                      ELSE Append(cacheDelete(c.entries, key), cached)
         IN [cache |-> [c EXCEPT !.entries = moved], found |-> TRUE,
             data |-> cached.data, age |-> c.now - cached.timestamp]
    ELSE [cache |-> [c EXCEPT !.entries = cacheDelete(@, key)], found |-> FALSE,
          data |-> NoServed.data, age |-> 0]

\* setCache(key, data): src/server.js sets the entry and then drops the oldest
\* when the Map has more than 100; part_000 drops the oldest when the Map has
\* 500 or more and then sets the entry
setCache(c, key, data) ==
    LET value == [data |-> data, timestamp |-> c.now] IN
    IF shape = "single"
    THEN LET set == cacheSet(c.entries, key, value) IN
         [c EXCEPT !.entries = IF Len(set) > 100 THEN Tail(set) ELSE set]
    ELSE LET kept == IF Len(c.entries) >= 500 THEN Tail(c.entries) ELSE c.entries IN
         [c EXCEPT !.entries = cacheSet(kept, key, value)]

\* POST /api/chat with a plain prompt (no chatId, no stream): a cached response
\* is served; otherwise the response made for this request is cached and sent
chatRequest(c, body) ==
    LET key == getCacheKey("chat", body)
        got == getFromCache(c, key)
        c1 == [got.cache EXCEPT !.chats = @ + 1]
    IN IF got.found
       THEN [c1 EXCEPT !.served = [hit |-> TRUE, request |-> body,
                                   data |-> got.data, age |-> got.age]]
       ELSE [setCache(c1, key, body) EXCEPT !.served = NoServed]

\* new SessionPool(): the fields both files declare
NewPool ==
    [ primary |-> 0, active |-> 0, standby |-> 0, sessionCounter |-> 0,
      tokenCache |-> Null, isInitializing |-> FALSE, initPromise |-> 0,
      isRotating |-> FALSE, rotationPromise |-> 0 ]

\* what the model records of a task's last getSession() and of the last failure
\* its Guard handled
NoGot == [session |-> 0, isReady |-> FALSE, status |-> "", token |-> Null,
          current |-> FALSE, thrown |-> NoError]
NoHandled == [on |-> 0, before |-> 0, standby |-> 0, quota |-> FALSE,
              promise |-> 0, swapFrom |-> -1, threw |-> NoError, after |-> -1]

\* the HTTP response of a streaming request: whether its headers went out (a
\* res.write or res.end was made) and how often res.end() was reached
NewResponse == [headersSent |-> FALSE, ends |-> 0]

\* a Guard invocation before it is issued
IdleTask ==
    [ pc |-> "idle", kind |-> "exec", retryCount |-> 0, session |-> 0,
      wait |-> 0, ctx |-> "", fsess |-> 0, delay |-> 0,
      outcome |-> "none", err |-> NoError, result |-> NoResult,
      resolved |-> NoResult, caught |-> NoError,
      attempts |-> 0, rotations |-> 0, recoveries |-> 0,
      got |-> NoGot, handled |-> NoHandled, failure |-> NoError,
      res |-> NewResponse ]

\* the IIFE of rotateOnLimitError: its position, the promises started and
\* settled so far, and what the current one has closed and created, for how
\* many callers
IdleRotation ==
    [ pc |-> "idle", started |-> 0, settled |-> 0,
      closed |-> 0, created |-> 0, callers |-> 0 ]

\* the state as one value, so that the handlers compose as functions on it
World ==
    [ pool |-> pool, sessions |-> sessions, pending |-> pending,
      initSettled |-> initSettled, rotation |-> rotation,
      retryTimers |-> retryTimers, chatStore |-> chatStore,
      initCalls |-> initCalls, faults |-> faults, http |-> http, tasks |-> tasks,
      capped |-> FALSE ]

\* the step is taken unless it would create a session beyond MaxSessions
Commit(w) ==
    /\ ~w.capped
    /\ pool' = w.pool
    /\ sessions' = w.sessions
    /\ pending' = w.pending
    /\ initSettled' = w.initSettled
    /\ rotation' = w.rotation
    /\ retryTimers' = w.retryTimers
    /\ chatStore' = w.chatStore
    /\ initCalls' = w.initCalls
    /\ faults' = w.faults
    /\ http' = w.http
    /\ tasks' = w.tasks
    /\ UNCHANGED <<shape, mail>>

(***************************************************************************)
(* PersistentStore and SessionPool helpers                                 *)
(***************************************************************************)
\* chatStore.saveToken(token)
saveToken(w, token) ==
    IF falsy(token) THEN w
    ELSE [w EXCEPT !.chatStore = [lastToken |-> token, saves |-> @.saves + 1]]

\* SessionPool.updateToken(token), src/server.js
updateToken(w, token) ==
    IF falsy(token) THEN w
    ELSE LET tokenStr == tokenStrOf(token) IN
         IF ~validForPool(tokenStr) THEN w
         ELSE IF ~falsy(w.pool.tokenCache) /\ w.pool.tokenCache = tokenStr THEN w
         ELSE saveToken([w EXCEPT !.pool.tokenCache = tokenStr], tokenStr)

\* a createSession(type) that hands the persisted last token to the new session
createSessionWithLastToken(w, type, owner, by) ==
    IF w.pool.sessionCounter >= MaxSessions THEN [w EXCEPT !.capped = TRUE]
    ELSE LET id == w.pool.sessionCounter + 1 IN
         [w EXCEPT !.pool.sessionCounter = id,
                   !.sessions = Append(@, [BrowserSession(id, type, by)
                                             EXCEPT !.token = w.chatStore.lastToken]),
                   !.pending = Append(@, owner)]

\* a createSession(type) that counts the session in only after its init()
createSessionCountedLate(w, type, owner, by) ==
    IF Len(w.sessions) >= MaxSessions THEN [w EXCEPT !.capped = TRUE]
    ELSE LET id == w.pool.sessionCounter + 1 IN
         [w EXCEPT !.sessions = Append(@, BrowserSession(id, type, by)),
                   !.pending = Append(@, owner)]

\* createSession(type), up to its await of s.init(): the session object exists
\* and owner awaits its init
createSession(w, type, owner, by) ==
    IF w.pool.sessionCounter >= MaxSessions THEN [w EXCEPT !.capped = TRUE]
    ELSE LET id == w.pool.sessionCounter + 1 IN
         [w EXCEPT !.pool.sessionCounter = id,
                   !.sessions = Append(@, BrowserSession(id, type, by)),
                   !.pending = Append(@, owner)]

\* the session createSession made last
created(w) == Len(w.sessions)

\* s.init() returns to createSession: the session logged in (waitForLogin saves
\* the token; createSession of src/server.js hands it to updateToken), or gave up
sessionInitDone(w, i, out) ==
    IF out.ok
    THEN LET w1 == saveToken([w EXCEPT !.sessions[i] = SessionLoggedIn(@, out.token),
                                       !.pending[i] = ""], out.token)
         IN IF shape = "single" THEN updateToken(w1, out.token) ELSE w1
    ELSE [w EXCEPT !.sessions[i] = SessionInitFailed(@), !.pending[i] = "",
                   !.faults.creations = @ + 1,
                   !.capped = w.capped \/ w.faults.creations >= w.faults.allowed]

\* session.close(), up to its await of browser.close()
close(w, i) == [w EXCEPT !.sessions[i] = SessionClose(@)]

isReadySession(w, i) == i # 0 /\ w.sessions[i].isReady

(***************************************************************************)
(* SessionPool.init                                                        *)
(***************************************************************************)
\* init(): a call while initialization is outstanding returns initPromise;
\* otherwise a new initPromise is started and creates the session(s)
init(w) ==
    IF w.pool.isInitializing THEN w
    ELSE LET w1 == [w EXCEPT !.pool.isInitializing = TRUE,
                             !.pool.initPromise = Len(w.initSettled) + 1]
         IN IF shape = "single"
            THEN createSession(w1, "primary", "init", "init")
            ELSE LET w2 == createSession(w1, "active", "init", "init")
                 IN IF w2.capped THEN w2
                    ELSE createSession(w2, "standby", "init", "init")

\* the initPromise settles
initSettle(w, ok, e) ==
    [w EXCEPT !.pool.isInitializing = FALSE,
              !.initSettled = Append(@, [ok |-> ok, err |-> e])]

\* the sessions the outstanding init still awaits / has got
initSessions(w) == {i \in 1..Len(w.sessions) : w.pending[i] \in {"init", "init:ready"}}

\* a createSession of init() settles (single: the only one; dual: Promise.all of
\* two: it rejects with the first failure, resolves when both are ready)
initSessionDone(w, i, out) ==
    LET w1 == sessionInitDone(w, i, out)
        others == initSessions(w) \ {i}
    IN IF ~out.ok
       THEN initSettle([w1 EXCEPT !.pending = [j \in DOMAIN @ |->
                                     IF j \in others
                                     THEN (IF @[j] = "init" THEN "orphan" ELSE "")
                                     ELSE @[j]]],
                       FALSE, out.err)
       ELSE IF shape = "single"
       THEN initSettle([w1 EXCEPT !.pool.primary = i], TRUE, NoError)
       ELSE IF \E j \in others : w.pending[j] = "init"
       THEN [w1 EXCEPT !.pending[i] = "init:ready"]
       ELSE LET both == others \cup {i}
                b1 == CHOOSE j \in both : \A k \in both : j <= k
                b2 == CHOOSE j \in both : \A k \in both : j >= k
            IN initSettle([w1 EXCEPT !.pool.active = b1, !.pool.standby = b2,
                                     !.pending = [j \in DOMAIN @ |->
                                        IF j \in both THEN "" ELSE @[j]]],
                          TRUE, NoError)

(***************************************************************************)
(* SessionPool.rotateOnLimitError (src/server.js)                          *)
(***************************************************************************)
\* rotateOnLimitError() without its `if (this.isRotating)` guard: every call
\* starts an IIFE and a promise of its own
rotateOnLimitErrorUnguarded(w) ==
    [w EXCEPT !.pool.isRotating = TRUE,
              !.pool.rotationPromise = w.rotation.started + 1,
              !.rotation = [pc |-> "delay", started |-> @.started + 1,
                            settled |-> @.settled,
                            closed |-> 0, created |-> 0, callers |-> 1]]

\* rotateOnLimitError(): returns the promise of the rotation in progress, or
\* starts the IIFE (which runs up to its 3 s timer) and returns its promise;
\* either way the promise returned is pool.rotationPromise afterwards
rotateOnLimitError(w) ==
    IF w.pool.isRotating
    THEN [w EXCEPT !.rotation.callers = @ + 1]
    ELSE [w EXCEPT !.pool.isRotating = TRUE,
                   !.pool.rotationPromise = w.rotation.started + 1,
                   !.rotation = [pc |-> "delay", started |-> @.started + 1,
                                 settled |-> @.settled,
                                 closed |-> 0, created |-> 0, callers |-> 1]]

\* the IIFE creates the new session
rotationCreate(w) ==
    LET w1 == createSession(w, "primary", "rotation", "rotateOnLimitError") IN
    IF w1.capped THEN w1
    ELSE [w1 EXCEPT !.rotation.pc = "creating", !.rotation.created = @ + 1]

\* after the 3 s timer: close the old primary (and await it), or create at once
rotationAfterDelay(w) ==
    IF w.pool.primary # 0
    THEN [close(w, w.pool.primary) EXCEPT !.rotation.pc = "closing",
                                          !.rotation.closed = @ + 1]
    ELSE rotationCreate(w)

\* after primary.close(): this.primary = null, then createSession
rotationAfterClose(w) == rotationCreate([w EXCEPT !.pool.primary = 0])

\* a finally that clears isRotating and keeps the settled promise in
\* rotationPromise
rotationFinallyKeepsPromise(w) ==
    [w EXCEPT !.pool.isRotating = FALSE,
              !.rotation.pc = "idle",
              !.rotation.settled = w.pool.rotationPromise]

\* finally { isRotating = false; rotationPromise = null }: the promise resolves
rotationFinally(w) ==
    [w EXCEPT !.pool.isRotating = FALSE,
              !.pool.rotationPromise = 0,
              !.rotation.pc = "idle",
              !.rotation.settled = w.pool.rotationPromise]

\* a rotation that takes the session for its primary however its init ended
rotationAfterCreateInstallsAny(w, i, out) ==
    rotationFinally([sessionInitDone(w, i, out) EXCEPT !.pool.primary = i])

\* createSession of the IIFE settles: primary = the new session, or the catch
\* swallows the error; then the finally
rotationAfterCreate(w, i, out) ==
    LET w1 == sessionInitDone(w, i, out) IN
    rotationFinally(IF out.ok THEN [w1 EXCEPT !.pool.primary = i] ELSE w1)

(***************************************************************************)
(* SessionPool.hotSwap / forceRotate (part_000)                            *)
(***************************************************************************)
\* a hotSwap() that leaves the pool as it is: the standby is not promoted
hotSwapBodyNoSwap(w) == [w |-> w, thrown |-> NoError, waiting |-> FALSE]

\* hotSwap() past its isRotating guard: standby becomes active; the old active is
\* closed and a new standby is created in the background.  With no standby the
\* log line reading this.active.id throws before either, and the catch rethrows.
\* thrown is the error hotSwap rejects with (NoError: it returned this.active).
hotSwapBody(w) ==
    LET oldActive == w.pool.active
        oldStandby == w.pool.standby
        w1 == [w EXCEPT !.pool.active = oldStandby, !.pool.standby = 0]
    IN IF oldStandby = 0
       THEN [w |-> w1, thrown |-> NullActive, waiting |-> FALSE]
       ELSE LET w2 == IF oldActive # 0 THEN close(w1, oldActive) ELSE w1
                w3 == createSession(w2, "standby", "standby", "hotSwap")
            IN [w |-> w3, thrown |-> NoError, waiting |-> FALSE]

\* hotSwap(): a call that finds isRotating set waits 1 s and returns this.active
hotSwap(w) ==
    IF w.pool.isRotating
    THEN [w |-> w, thrown |-> NoError, waiting |-> TRUE]
    ELSE hotSwapBody(w)

\* .then(newStandby => this.standby = newStandby) / .catch: retry after 5 s
standbyCreated(w, i, out) ==
    LET w1 == sessionInitDone(w, i, out) IN
    IF out.ok THEN [w1 EXCEPT !.pool.standby = i]
    ELSE [w1 EXCEPT !.retryTimers = @ + 1]

\* the 5 s timer: createSession('standby') once more
standbyRetry(w) ==
    createSession([w EXCEPT !.retryTimers = @ - 1], "standby", "retry", "hotSwap")

\* .then(s => this.standby = s) / .catch: logged only
standbyRetried(w, i, out) ==
    LET w1 == sessionInitDone(w, i, out) IN
    IF out.ok THEN [w1 EXCEPT !.pool.standby = i] ELSE w1

(***************************************************************************)
(* Execution Guard: the exits of safeExecute and executeStream             *)
(***************************************************************************)
\* the pool's active reference: primary (single) or active (dual)
activeRef(w) == IF shape = "single" THEN w.pool.primary ELSE w.pool.active

\* session.activeRequests--
decrement(w, i) == [w EXCEPT !.sessions[i].activeRequests = @ - 1]

\* session.activeRequests--, and in src/server.js the close of a 'retiring'
\* session whose counter reached 0
release(w, i) ==
    LET w1 == decrement(w, i) IN
    IF /\ shape = "single"
       /\ w1.sessions[i].status = "retiring"
       /\ w1.sessions[i].activeRequests <= 0
    THEN close(w1, i)
    ELSE w1

\* the call frame of a finished invocation is gone: its locals no longer exist
endFrame(w, t) ==
    [w EXCEPT !.tasks[t].pc = "done", !.tasks[t].session = 0, !.tasks[t].wait = 0,
              !.tasks[t].ctx = "", !.tasks[t].fsess = 0, !.tasks[t].retryCount = 0]

\* the invocation ends for its caller: a result is returned / the stream ended
return(w, t, r) ==
    [endFrame(w, t) EXCEPT !.tasks[t].outcome = "result", !.tasks[t].result = r]

\* the invocation ends for its caller: e is raised / written as the stream's error
raise(w, t, e) ==
    [endFrame(w, t) EXCEPT !.tasks[t].outcome = "error", !.tasks[t].err = e]

\* `if (!res.writableEnded) res.write(...)` of executeStream
resWrite(w, t) ==
    IF w.tasks[t].res.ends > 0 THEN w
    ELSE [w EXCEPT !.tasks[t].res.headersSent = TRUE]

\* `if (!res.writableEnded) { res.write(...); res.end(); }` of executeStream
resEnd(w, t) ==
    IF w.tasks[t].res.ends > 0 THEN w
    ELSE [w EXCEPT !.tasks[t].res = [headersSent |-> TRUE, ends |-> @.ends + 1]]

\* executeStream rejected with e (an await inside its catch block threw): the
\* catch of the /api/chat handler calls res.status(500).json(...), which ends
\* the response when nothing was written yet and throws
\* ERR_HTTP_HEADERS_SENT, leaving the response open, when something was
routeCatch(w, t, e) ==
    IF w.tasks[t].res.headersSent THEN raise(w, t, e)
    ELSE raise(resEnd(w, t), t, e)

\* bookkeeping of the model: the failure the Guard starts to handle (e, and
\* whether the result or error it was found in contains "quota"), with the
\* pool's active session and standby at that moment
noteFailure(w, t, e, quota) ==
    [w EXCEPT !.tasks[t].err = e,
              !.tasks[t].failure = IF @ = NoError THEN e ELSE @,
              !.tasks[t].handled = [NoHandled EXCEPT !.on = w.tasks[t].session,
                                                     !.before = activeRef(w),
                                                     !.standby = w.pool.standby,
                                                     !.quota = quota]]

\* bookkeeping of the model: the rotation the Guard asked for has resolved
noteHandled(w, t) ==
    [w EXCEPT !.tasks[t].handled.after = activeRef(w)]

\* the backoff of safeExecute before its rotation, in ms:
\* (retryCount + 1) * 2000 in src/server.js, (retryCount + 1) * 1000 in part_000
backoffDelay(retryCount) ==
    (retryCount + 1) * (IF shape = "single" THEN 2000 ELSE 1000)

\* catch (e) of safeExecute with `retryCount <= MAX_RETRIES` for its test
safeExecuteCatchOneMore(w, t, e, quota) ==
    LET tk == w.tasks[t]
        w0 == [w EXCEPT !.tasks[t].caught = e]
        w1 == IF tk.session # 0 THEN release(w0, tk.session) ELSE w0
        isRecoverableError ==
            IF shape = "single" THEN RecoverableSingle[e] ELSE RecoverableDual[e]
    IN IF isRecoverableError /\ tk.retryCount <= MAX_RETRIES
       THEN [noteFailure(w1, t, e, quota) EXCEPT
                !.tasks[t].pc = "backoff",
                !.tasks[t].delay = backoffDelay(tk.retryCount)]
       ELSE raise(w1, t, e)

\* catch (e) of safeExecute: release the session; a recoverable error with
\* retries left goes to the backoff timer, any other is thrown to the caller
safeExecuteCatch(w, t, e, quota) ==
    LET tk == w.tasks[t]
        w0 == [w EXCEPT !.tasks[t].caught = e]
        w1 == IF tk.session # 0 THEN release(w0, tk.session) ELSE w0
        isRecoverableError ==
            IF shape = "single" THEN RecoverableSingle[e] ELSE RecoverableDual[e]
    IN IF isRecoverableError /\ tk.retryCount < MAX_RETRIES
       THEN [noteFailure(w1, t, e, quota) EXCEPT
                !.tasks[t].pc = "backoff",
                !.tasks[t].delay = backoffDelay(tk.retryCount)]
       ELSE raise(w1, t, e)

\* fn(session) resolved in safeExecute: release the session, then look for a
\* limit error in the result; one found is thrown into the catch above
safeExecuteResult(w, t, r) ==
    LET w1 == release(w, w.tasks[t].session) IN
    IF shape = "single"
    THEN IF ResultLimitSingle[r]
         THEN safeExecuteCatch(w1, t, limitReachedSingle(r), ResultQuota[r])
         ELSE return(w1, t, r)
    ELSE IF ResultLimitDual[r]
         THEN safeExecuteCatch(w1, t, limitReachedDual, ResultQuota[r])
         ELSE return(w1, t, r)

\* await pool.forceRotate() of part_000 (forceRotate is hotSwap) made by task t;
\* then is the pc of the continuation
awaitHotSwap(w0, t, then) ==
    LET w == [w0 EXCEPT !.tasks[t].handled.swapFrom = w0.pool.standby]
        h == hotSwap(w)
    IN
    IF h.waiting
    THEN [w |-> [h.w EXCEPT !.tasks[t].pc = "hotSwap:wait", !.tasks[t].ctx = then],
          thrown |-> NoError]
    ELSE IF h.thrown # NoError
    THEN [w |-> [noteHandled(h.w, t) EXCEPT !.tasks[t].handled.threw = h.thrown],
          thrown |-> h.thrown]
    ELSE [w |-> [noteHandled(h.w, t) EXCEPT !.tasks[t].pc = then], thrown |-> NoError]

\* await pool.rotateOnLimitError() made by task t: it holds the promise returned
awaitRotation(w, t) ==
    [w EXCEPT !.tasks[t].pc = "rotate:wait",
              !.tasks[t].wait = w.pool.rotationPromise,
              !.tasks[t].handled.promise = w.pool.rotationPromise]

\* catch (e) of executeStream: decrement; a limit error with retries left rotates
\* at once (rotateOnLimitError in src/server.js, forceRotate in part_000) and
\* then waits for the retry timer; any other error is written and ends the
\* stream.  A forceRotate that throws here throws out of executeStream
streamCatch(w, t, e) ==
    LET tk == w.tasks[t]
        w1 == IF tk.session # 0 THEN decrement(w, tk.session) ELSE w
    IN IF LimitError[e] /\ tk.retryCount < MAX_RETRIES
       THEN LET w2 == [noteFailure(w1, t, e, ErrorQuota[e])
                          EXCEPT !.tasks[t].rotations = @ + 1] IN
            IF shape = "single"
            THEN awaitRotation(rotateOnLimitError(w2), t)
            ELSE LET h == awaitHotSwap(w2, t, "stream:wait") IN
                 IF h.thrown # NoError THEN routeCatch(h.w, t, h.thrown) ELSE h.w
       ELSE raise(resEnd(w1, t), t, e)

\* getSession() threw e, or the invocation threw e: the caller's catch runs
failed(w, t, e) ==
    IF w.tasks[t].kind = "exec" THEN safeExecuteCatch(w, t, e, ErrorQuota[e])
    ELSE streamCatch(w, t, e)

(***************************************************************************)
(* SessionPool.getSession and forceRotate (src/server.js), getSession      *)
(* (part_000)                                                              *)
(***************************************************************************)
\* getSession() returned session i to the Guard, which counts the request in
\* (session.activeRequests++) and starts injectHelpers / fn(session)
acquired(w, t, i) ==
    [w EXCEPT !.sessions[i].activeRequests = @ + 1,
              !.tasks[t].session = i,
              !.tasks[t].pc = "running",
              !.tasks[t].attempts = @ + 1,
              !.tasks[t].got = [session |-> i,
                                isReady |-> w.sessions[i].isReady,
                                status |-> w.sessions[i].status,
                                token |-> w.sessions[i].token,
                                current |-> (i = activeRef(w)),
                                thrown |-> NoError]]

\* getSession() threw e
unavailable(w, t, e) ==
    failed([w EXCEPT !.tasks[t].got = [NoGot EXCEPT !.thrown = e]], t, e)

\* forceRotate() of src/server.js past the close of the old session
forceRotateCreate(w, t, ctx) ==
    LET w1 == createSession(w, "primary", "forceRotate", "forceRotate") IN
    IF w1.capped THEN w1
    ELSE [w1 EXCEPT !.tasks[t].pc = "forceRotate:create",
                    !.tasks[t].ctx = ctx,
                    !.tasks[t].fsess = created(w1)]

\* forceRotate() of src/server.js, up to its first await
forceRotate(w, t, ctx) ==
    LET oldSession == w.pool.primary IN
    IF oldSession # 0
    THEN [close(w, oldSession) EXCEPT !.tasks[t].pc = "forceRotate:close",
                                      !.tasks[t].ctx = ctx]
    ELSE forceRotateCreate(w, t, ctx)

\* getSession() of src/server.js with `if (this.primary)` for its test
getSessionPrimaryAnyState(w, t) ==
    IF w.pool.primary # 0 THEN acquired(w, t, w.pool.primary)
    ELSE forceRotate([w EXCEPT !.tasks[t].recoveries = @ + 1], t, "getSession")

\* getSession() of src/server.js from `if (this.primary && this.primary.isReady)`
getSessionPrimary(w, t) ==
    IF isReadySession(w, w.pool.primary) THEN acquired(w, t, w.pool.primary)
    ELSE forceRotate([w EXCEPT !.tasks[t].recoveries = @ + 1], t, "getSession")

\* getSession() of src/server.js after the recovery's forceRotate() returned
getSessionRecovered(w, t) ==
    IF isReadySession(w, w.pool.primary) THEN acquired(w, t, w.pool.primary)
    ELSE unavailable(w, t, SessionUnavailable)

\* getSession() of part_000 from `if (this.active && this.active.isReady)`
getSessionActive(w, t) ==
    IF isReadySession(w, w.pool.active) THEN acquired(w, t, w.pool.active)
    ELSE IF isReadySession(w, w.pool.standby)
    THEN LET h == hotSwap([w EXCEPT !.tasks[t].recoveries = @ + 1]) IN
         IF h.waiting
         THEN [h.w EXCEPT !.tasks[t].pc = "hotSwap:wait", !.tasks[t].ctx = "getSession"]
         ELSE IF h.thrown # NoError THEN unavailable(h.w, t, h.thrown)
         ELSE acquired(h.w, t, h.w.pool.active)
    ELSE unavailable(w, t, NoSessionsAvailable)

\* getSession() from `if (this.isInitializing) await this.initPromise`
getSessionInit(w, t) ==
    IF w.pool.isInitializing
    THEN [w EXCEPT !.tasks[t].pc = "getSession:init",
                   !.tasks[t].wait = w.pool.initPromise]
    ELSE IF shape = "single" THEN getSessionPrimary(w, t) ELSE getSessionActive(w, t)

\* getSession(), up to its first await
getSession(w, t) ==
    LET w1 == [w EXCEPT !.tasks[t].recoveries = 0] IN
    IF shape = "single" /\ w1.pool.isRotating /\ w1.pool.rotationPromise # 0
    THEN [w1 EXCEPT !.tasks[t].pc = "getSession:rotation",
                    !.tasks[t].wait = w1.pool.rotationPromise]
    ELSE getSessionInit(w1, t)

\* safeExecute(actionName, fn, retryCount + 1) / executeStream(retryCount + 1)
retry(w, t) ==
    getSession([w EXCEPT !.tasks[t].retryCount = @ + 1, !.tasks[t].session = 0], t)

\* the streaming evaluate resolved with r: a limit error with retries left
\* counts the request out, forces a rotation and retries after a timer; any
\* other result ends the stream and counts the request out
streamResult(w, t, r) ==
    LET tk == w.tasks[t]
        limit == ResultLimitSingle[r]
    IN IF limit /\ tk.retryCount < MAX_RETRIES
       THEN LET w1 == [noteFailure(resWrite(decrement(w, tk.session), t), t, NoError,
                                   ResultQuota[r])
                          EXCEPT !.tasks[t].rotations = @ + 1] IN
            IF shape = "single" THEN forceRotate(w1, t, "stream")
            ELSE LET h == awaitHotSwap(w1, t, "stream:wait") IN
                 IF h.thrown # NoError THEN streamCatch(h.w, t, h.thrown) ELSE h.w
       ELSE return(decrement(resEnd(w, t), tk.session), t, r)

(***************************************************************************)
(* A shared promise settles: its awaiters resume, one after the other, in  *)
(* the same turn of the event loop (order is the order of their awaits)    *)
(***************************************************************************)
Orders == {o \in [1..Cardinality(Tasks) -> Tasks] : \A t \in Tasks : \E k \in DOMAIN o : o[k] = t}

\* task t resumes after rotation promise p resolved: getSession() goes on to
\* its isInitializing test; the Guard's `await pool.rotateOnLimitError()`
\* returns, after which safeExecute retries and executeStream waits for its timer
rotationAwaited(w, t, p) ==
    LET tk == w.tasks[t] IN
    IF tk.wait # p THEN w
    ELSE IF tk.pc = "getSession:rotation" THEN getSessionInit(w, t)
    ELSE IF tk.pc = "rotate:wait"
    THEN LET w1 == noteHandled(w, t) IN
         IF tk.kind = "exec" THEN retry(w1, t)
         ELSE [w1 EXCEPT !.tasks[t].pc = "stream:wait"]
    ELSE w

\* task t resumes after init promise p settled: `await this.initPromise` of
\* getSession() returns, or throws the error init() rejected with
initAwaited(w, t, p) ==
    LET tk == w.tasks[t]
        settled == w.initSettled[p]
    IN IF tk.pc # "getSession:init" \/ tk.wait # p THEN w
       ELSE IF ~settled.ok THEN unavailable(w, t, settled.err)
       ELSE IF shape = "single" THEN getSessionPrimary(w, t)
       ELSE getSessionActive(w, t)

RECURSIVE resumeRotation(_, _, _)
resumeRotation(w, order, p) ==
    IF order = <<>> THEN w
    ELSE resumeRotation(rotationAwaited(w, Head(order), p), Tail(order), p)

RECURSIVE resumeInit(_, _, _)
resumeInit(w, order, p) ==
    IF order = <<>> THEN w
    ELSE resumeInit(initAwaited(w, Head(order), p), Tail(order), p)

(***************************************************************************)
(* Initial state: the module has been loaded (const pool = new SessionPool()) *)
(***************************************************************************)
\* the world right after `new SessionPool()` of part_000: nothing is started
Constructed ==
    [ pool |-> NewPool, sessions |-> <<>>, pending |-> <<>>, initSettled |-> <<>>,
      rotation |-> IdleRotation, retryTimers |-> 0,
      chatStore |-> [lastToken |-> Null, saves |-> 0],
      initCalls |-> 0, faults |-> [invocations |-> 0, creations |-> 0,
                                  allowed |-> MaxCreateFailures],
      http |-> [requests |-> 0, token |-> Undefined, cache |-> NewCache],
      tasks |-> [t \in Tasks |-> IdleTask], capped |-> FALSE ]

\* the module is loaded: the constructor of src/server.js ends with
\* startInfiniteRotation(), which calls init(); the constructor of part_000
\* starts nothing
Loaded == IF shape = "single" THEN init(Constructed) ELSE Constructed

\* the server is started (node server.js): the app.listen callback has called
\* pool.init(), which in src/server.js finds the constructor's init outstanding
Started == init(Loaded)

Init ==
    /\ shape \in {"single", "dual"}
    /\ LET w == Started IN
       /\ pool = w.pool
       /\ sessions = w.sessions
       /\ pending = w.pending
       /\ initSettled = w.initSettled
       /\ rotation = w.rotation
       /\ retryTimers = w.retryTimers
       /\ chatStore = w.chatStore
       /\ initCalls = w.initCalls
       /\ faults = w.faults
       /\ http = w.http
       /\ tasks = w.tasks
    /\ mail = NewMail

(***************************************************************************)
(* Actions of the pool                                                     *)
(***************************************************************************)
\* the HTTP layer calls pool.init() (app.listen callback, exported init)
CallInit ==
    /\ initCalls < MaxInitCalls
    /\ Commit(init([World EXCEPT !.initCalls = @ + 1]))

\* a createSession awaited by init() settles; if that settles initPromise, the
\* getSession() calls awaiting it resume
InitSessionDone(i, out, order) ==
    /\ pending[i] = "init"
    /\ LET w == initSessionDone(World, i, out) IN
       IF Len(w.initSettled) > Len(initSettled)
       THEN Commit(resumeInit(w, order, Len(w.initSettled)))
       ELSE order = (CHOOSE o \in Orders : TRUE) /\ Commit(w)

\* a createSession nobody awaits any more settles (its Promise.all was rejected)
OrphanCreated(i, out) ==
    /\ pending[i] = "orphan"
    /\ Commit(sessionInitDone(World, i, out))

\* the 3 s timer of the rotateOnLimitError IIFE fires
RotationTimer ==
    /\ rotation.pc = "delay"
    /\ Commit(rotationAfterDelay(World))

\* primary.close() of the IIFE has returned
RotationClosed ==
    /\ rotation.pc = "closing"
    /\ Commit(rotationAfterClose(World))

\* createSession of the IIFE settles and the rotation promise resolves: the
\* callers awaiting it resume
RotationCreated(i, out, order) ==
    /\ rotation.pc = "creating"
    /\ pending[i] = "rotation"
    /\ Commit(resumeRotation(rotationAfterCreate(World, i, out), order,
                             pool.rotationPromise))

\* the background createSession('standby') of hotSwap settles
StandbyCreated(i, out) ==
    /\ pending[i] = "standby"
    /\ Commit(standbyCreated(World, i, out))

\* the 5 s timer after a failed standby creation fires
StandbyRetryTimer ==
    /\ retryTimers > 0
    /\ Commit(standbyRetry(World))

\* the second createSession('standby') settles
StandbyRetried(i, out) ==
    /\ pending[i] = "retry"
    /\ Commit(standbyRetried(World, i, out))

(***************************************************************************)
(* Actions of the Guard's callers                                          *)
(***************************************************************************)
\* an HTTP handler calls safeExecute(name, fn) or executeStream()
Start(t, kind) ==
    /\ tasks[t].pc = "idle"
    /\ Commit(getSession([World EXCEPT !.tasks[t].kind = kind], t))

\* forceRotate() resumes after `await oldSession.close()`
ForceRotateClosed(t) ==
    /\ tasks[t].pc = "forceRotate:close"
    /\ Commit(forceRotateCreate(World, t, tasks[t].ctx))

\* forceRotate() resumes after `await this.createSession('primary')`: it sets
\* primary and returns to getSession or to executeStream, or rethrows
ForceRotateCreated(t, out) ==
    /\ tasks[t].pc = "forceRotate:create"
    /\ LET i == tasks[t].fsess
           w1 == sessionInitDone(World, i, out)
           w2 == [w1 EXCEPT !.pool.primary = i]
       IN Commit(IF out.ok
                 THEN IF tasks[t].ctx = "getSession" THEN getSessionRecovered(w2, t)
                      ELSE [noteHandled(w2, t) EXCEPT !.tasks[t].pc = "stream:wait"]
                 ELSE IF tasks[t].ctx = "getSession" THEN unavailable(w1, t, out.err)
                      ELSE streamCatch(w1, t, out.err))

\* injectHelpers and fn(session) resolve with r
Resolved(t, r) ==
    /\ tasks[t].pc = "running"
    /\ r.kind = "ok" \/ faults.invocations < MaxFailures
    /\ LET w0 == [World EXCEPT !.tasks[t].resolved = r]
           w == IF r.kind = "ok" THEN w0
                ELSE [w0 EXCEPT !.faults.invocations = @ + 1]
       IN Commit(IF tasks[t].kind = "exec" THEN safeExecuteResult(w, t, r)
                 ELSE streamResult(w, t, r))

\* injectHelpers or fn(session) throws e
Thrown(t, e) ==
    /\ tasks[t].pc = "running"
    /\ faults.invocations < MaxFailures
    /\ Commit(failed([World EXCEPT !.faults.invocations = @ + 1,
                                   !.tasks[t].resolved = NoResult], t, e))

\* a timer of the task fires: the backoff of safeExecute (then the rotation is
\* requested), the wait of executeStream before its retry, the 1 s wait of a
\* hotSwap() that found a swap in progress
TimerFired(t) ==
    /\ tasks[t].pc \in {"backoff", "stream:wait", "hotSwap:wait"}
    /\ LET w == World
           tk == tasks[t]
       IN Commit(
            IF tk.pc = "backoff"
            THEN LET w1 == [w EXCEPT !.tasks[t].rotations = @ + 1] IN
                 IF shape = "single" THEN awaitRotation(rotateOnLimitError(w1), t)
                 ELSE LET h == awaitHotSwap(w1, t, "retry") IN
                      IF h.thrown # NoError THEN raise(h.w, t, h.thrown)
                      ELSE IF h.w.tasks[t].pc = "hotSwap:wait" THEN h.w
                      ELSE retry(h.w, t)
            ELSE IF tk.pc = "stream:wait" THEN retry(w, t)
            ELSE IF tk.ctx = "getSession"
            THEN IF w.pool.active # 0 THEN acquired(w, t, w.pool.active)
                 ELSE unavailable(w, t, NullActive)
            ELSE IF tk.ctx = "retry" THEN retry(noteHandled(w, t), t)
            ELSE [noteHandled(w, t) EXCEPT !.tasks[t].pc = "stream:wait"])

(***************************************************************************)
(* Specification                                                           *)
(***************************************************************************)
\* the outcomes of an invocation that the Guard and the pool tell apart:
\* success, a limit error in the result, another error in the result, a thrown
\* limit error (recoverable), a thrown error that is not recoverable
PoolResults ==
    { Result("ok", ""), Result("string", "Monthly Quota exceeded"),
      Result("object", "usage-limited-chat"), Result("string", "Invalid prompt") }
PoolThrown ==
    { Err("Error", "insufficient_funds: quota exceeded"),
      Err("Error", "Unsupported model") }

Created == 1..Len(sessions)

Next ==
    \/ \E i \in Created, order \in Orders : \E out \in CreateOutcomes(i) :
           InitSessionDone(i, out, order)
    \/ \E i \in Created : \E out \in CreateOutcomes(i) : OrphanCreated(i, out)
    \/ RotationTimer
    \/ RotationClosed
    \/ \E i \in Created, order \in Orders : \E out \in CreateOutcomes(i) :
           RotationCreated(i, out, order)
    \/ \E i \in Created : \E out \in CreateOutcomes(i) : StandbyCreated(i, out)
    \/ StandbyRetryTimer
    \/ \E i \in Created : \E out \in CreateOutcomes(i) : StandbyRetried(i, out)
    \/ \E t \in Tasks : \E kind \in Kinds[t] : Start(t, kind)
    \/ \E t \in Tasks : ForceRotateClosed(t)
    \/ \E t \in Tasks : \E out \in CreateOutcomes(tasks[t].fsess) : ForceRotateCreated(t, out)
    \/ \E t \in Tasks, r \in PoolResults : Resolved(t, r)
    \/ \E t \in Tasks, e \in PoolThrown : Thrown(t, e)
    \/ \E t \in Tasks : TimerFired(t)

Spec == Init /\ [][Next]_vars

\* the module is loaded and the HTTP layer calls pool.init() (app.listen
\* callback, exported start and init) while nothing else uses the pool
InitLoaded ==
    /\ shape \in {"single", "dual"}
    /\ LET w == Loaded IN
       /\ pool = w.pool
       /\ sessions = w.sessions
       /\ pending = w.pending
       /\ initSettled = w.initSettled
       /\ rotation = w.rotation
       /\ retryTimers = w.retryTimers
       /\ chatStore = w.chatStore
       /\ initCalls = w.initCalls
       /\ faults = w.faults
       /\ http = w.http
       /\ tasks = w.tasks
    /\ mail = NewMail

NextInit ==
    \/ CallInit
    \/ \E i \in Created, order \in Orders : \E out \in CreateOutcomes(i) :
           InitSessionDone(i, out, order)
    \/ \E i \in Created : \E out \in CreateOutcomes(i) : OrphanCreated(i, out)
    \/ \E t \in Tasks : \E kind \in Kinds[t] : Start(t, kind)
    \/ \E t \in Tasks : Resolved(t, Result("ok", ""))

SpecInit == InitLoaded /\ [][NextInit]_vars

(***************************************************************************)
(* The login loop tick by tick, and POST /api/auth/token                   *)
(***************************************************************************)
\* how many POST /api/auth/token requests a behaviour holds
MaxRequests == 1

\* opaque strings of 20, 21 and 32 characters
Token20 == "eyJhbGciOiJIUzI1NiJ9"
Token21 == Token20 \o "."
Token32 == Token20 \o ".dXNlcg.c2ln"

\* req.body.token of a POST /api/auth/token
PostedTokens ==
    { Undefined, Str(""), Str("{}"), Str("null"), Str("undefined"),
      Str(Token20), Str(Token21), Str(Token32), LoginToken(1),
      Obj(Token32, Token21, "", ""), Obj("", Token32, Token21, ""),
      Obj("", "", Token32, "u1"), Obj("", "", "", "u1"),
      Obj("", "", "", Token20), Obj("", "", "", "") }

\* state.token of getPageStatus() in one tick of the login loop of session id
\* (null also stands for a page whose API is not there yet)
PageTokens(id) ==
    { Null, Str(Token20), LoginToken(id), Obj("", LoginToken(id).s, "", "u1") }

LoginTimeout == Err("Error", "Login Timeout")
\* connect() or page.goto() of an attempt fails; page.evaluate fails in the loop
LaunchFailed == Err("TimeoutError", "Navigation timeout of 60000 ms exceeded")
PageClosed == Err("Error", "Execution context was destroyed")

\* how a performRegistration() may end: registered, or one of its failures
\* (tempMail.init() gave up, no verification code came, the form or the code
\* fields were not found, the site rejected the address)
RegistrationFailures == {"no address", "no code", "no form", "no code field", "rejected"}
RegistrationOutcomes == {"registered"} \cup RegistrationFailures

\* the mailbox tab when performRegistration() returns.  tempMail.init() opens
\* the tab first; `await tempMail.close()` is the last statement of the try
\* block, so it is skipped by whatever throws into the catch: tempMail.init()
\* giving up, and waitForEmail() running into its timeout (also after
\* fillRegistrationForm found no form: it returns, and the wait for the code
\* follows).  enterVerificationCode catches its errors, and a rejected
\* address closes the tab in its branch and once more at the end
performRegistration(outcome) ==
    LET opened == "open"
        thrown == outcome \in {"no address", "no code", "no form"}
    IN IF thrown THEN opened ELSE "closed"

\* what the page is like in one tick of the login loop: whether injectHelpers
\* gets through, whether the page asks to sign up ("throws": the evaluate that
\* looks throws), and how a performRegistration() called in this tick ends
LoginPage(injectOk, signup, outcome) ==
    [injectOk |-> injectOk, signup |-> signup, outcome |-> outcome]
QuietPage == LoginPage(TRUE, "no", "")
LoginPages ==
    { QuietPage, LoginPage(FALSE, "no", ""), LoginPage(TRUE, "throws", "") } \cup
    { LoginPage(TRUE, "yes", o) : o \in RegistrationOutcomes }

\* the createSession of session i settles with out, for whoever awaits it
createSessionSettled(w, i, out) ==
    IF w.pending[i] = "init"
    THEN LET w1 == initSessionDone(w, i, out) IN
         IF Len(w1.initSettled) > Len(w.initSettled)
         THEN resumeInit(w1, CHOOSE o \in Orders : TRUE, Len(w1.initSettled))
         ELSE w1
    ELSE sessionInitDone(w, i, out)

\* a catch (e) of init() that keeps the browser of the failed attempt
initAttemptFailedKeepsBrowser(w, i, e) ==
    IF w.sessions[i].attempt < maxRetries
    THEN [w EXCEPT !.sessions[i].attempt = @ + 1,
                   !.sessions[i].tick = 0,
                   !.sessions[i].phase = "launch",
                   !.sessions[i].registrationAttempted = FALSE,
                   !.sessions[i].registration = NoRegistration]
    ELSE createSessionSettled(w, i, [ok |-> FALSE, token |-> Null, err |-> e])

\* catch (e) of init(): the browser of the attempt is closed and the handles
\* are reset; after attempt maxRetries the session is marked dead and e is
\* rethrown to createSession, else the next attempt starts (after a timer)
initAttemptFailed(w, i, e) ==
    LET w1 == [w EXCEPT !.sessions[i].browser = FALSE] IN
    IF w1.sessions[i].attempt < maxRetries
    THEN [w1 EXCEPT !.sessions[i].attempt = @ + 1,
                    !.sessions[i].tick = 0,
                    !.sessions[i].phase = "launch",
                    !.sessions[i].registrationAttempted = FALSE,
                    !.sessions[i].registration = NoRegistration]
    ELSE createSessionSettled(w1, i, [ok |-> FALSE, token |-> Null, err |-> e])

\* an attempt of init() up to its call of waitForLogin(): the browser is
\* launched and the page opened (ok), or one of the two throws
initAttempt(w, i, ok) ==
    IF ok THEN [w EXCEPT !.sessions[i].browser = TRUE, !.sessions[i].phase = "login"]
    ELSE initAttemptFailed(w, i, LaunchFailed)

\* a registration check that takes the registration for attempted only when
\* it has registered
registrationCheckUntilRegistered(w, i, page) ==
    LET s == w.sessions[i] IN
    IF s.registrationAttempted \/ page.signup # "yes" THEN w
    ELSE [w EXCEPT !.sessions[i].registrationAttempted = (page.outcome = "registered"),
                   !.sessions[i].registration =
                       [calls |-> @.calls + 1, outcome |-> page.outcome, tick |-> s.tick,
                        mailPage |-> performRegistration(page.outcome)]]

\* a registration check out of which a failure of performRegistration is thrown
registrationCheckRaising(w, i, page) ==
    LET s == w.sessions[i] IN
    IF s.registrationAttempted \/ page.signup # "yes" THEN w
    ELSE LET w1 == [w EXCEPT !.sessions[i].registrationAttempted = TRUE,
                             !.sessions[i].registration =
                                 [calls |-> @.calls + 1, outcome |-> page.outcome,
                                  tick |-> s.tick,
                                  mailPage |-> performRegistration(page.outcome)]]
         IN IF page.outcome \in RegistrationFailures
            THEN [w1 EXCEPT !.sessions[i].status = "dead", !.sessions[i].browser = FALSE]
            ELSE w1

\* `if (!registrationAttempted)` of waitForLogin (src/server.js): when the page
\* asks to sign up, performRegistration() is called, which catches whatever
\* goes wrong in it, and the registration is taken for attempted; an error of
\* the evaluate that looks at the page is caught and nothing is done
registrationCheck(w, i, page) ==
    LET s == w.sessions[i] IN
    IF s.registrationAttempted \/ page.signup # "yes" THEN w
    ELSE [w EXCEPT !.sessions[i].registrationAttempted = TRUE,
                   !.sessions[i].registration =
                       [calls |-> @.calls + 1, outcome |-> page.outcome, tick |-> s.tick,
                        mailPage |-> performRegistration(page.outcome)]]

\* one iteration of the loop of waitForLogin of session i, in which the page
\* is like page and shows the token seen; with what follows in init() and
\* createSession when the loop ends.  injectHelpers may throw out of the loop;
\* a valid token ends the loop logged in; else the registration check runs
\* (src/server.js only) and the next iteration follows; the last iteration
\* without a valid token throws 'Login Timeout' into the catch of init()
waitForLoginTick(w, i, seen, page) ==
    LET s == w.sessions[i]
        tokenStr == tokenStrOf(seen)
    IN IF ~page.injectOk THEN initAttemptFailed(w, i, PageClosed)
       ELSE IF ~falsy(seen) /\ validForLogin(tokenStr)
       THEN createSessionSettled(w, i, [ok |-> TRUE, token |-> tokenStr, err |-> NoError])
       ELSE LET w1 == IF shape = "single" THEN registrationCheck(w, i, page) ELSE w
            IN IF s.tick + 1 < LoginTicks(shape)
               THEN [w1 EXCEPT !.sessions[i].tick = @ + 1]
               ELSE initAttemptFailed([w1 EXCEPT !.sessions[i].tick = @ + 1], i,
                                      LoginTimeout)

\* the handler of POST /api/auth/token: 400 without a token; else
\* pool.updateToken(token), which part_000 does not define (the TypeError is
\* caught and answered with 500)
postAuthToken(w, token) ==
    LET w1 == [w EXCEPT !.http.requests = @ + 1, !.http.token = token]
    IN IF falsy(token) THEN w1
       ELSE IF shape = "single" THEN updateToken(w1, token)
       ELSE w1

InitAttempt(i, ok) ==
    /\ pending[i] \in {"init", "orphan"}
    /\ sessions[i].phase = "launch"
    /\ Commit(initAttempt(World, i, ok))

LoginTick(i, seen, page) ==
    /\ pending[i] \in {"init", "orphan"}
    /\ sessions[i].phase = "login"
    /\ Commit(waitForLoginTick(World, i, seen, page))

PostAuthToken(token) ==
    /\ http.requests < MaxRequests
    /\ Commit(postAuthToken(World, token))

\* the login loop on a page that never asks to sign up, with browsers that
\* launch, and the token endpoint
NextSession ==
    \/ \E i \in Created : InitAttempt(i, TRUE)
    \/ \E i \in Created : \E seen \in PageTokens(i) : LoginTick(i, seen, QuietPage)
    \/ \E token \in PostedTokens : PostAuthToken(token)

SpecSession == Init /\ [][NextSession]_vars

\* init() and the login loop with every failure they may meet
NextLogin ==
    \/ \E i \in Created, ok \in BOOLEAN : InitAttempt(i, ok)
    \/ \E i \in Created : \E seen \in PageTokens(i), page \in LoginPages :
           LoginTick(i, seen, page)

SpecLogin == Init /\ [][NextLogin]_vars

(***************************************************************************)
(* POST /api/chat and its response cache                                   *)
(***************************************************************************)
\* chat requests a behaviour holds, and the clock: it advances by ClockStep ms
\* up to MaxClock ms
MaxChats == 3
ClockStep == 150000
MaxClock == 750000

\* prompts: a short one, one with quotes in it, and two of 100 characters that
\* differ in the last one; models: none given, and two names of equal length
LongPrompt ==
    "Summarise the following paragraph in two sentences and keep every number it mentions exactly as it "
ChatPrompts == { "hi", "hi\",\"model\":\"gpt-4o", LongPrompt \o "1", LongPrompt \o "2" }
ChatModels == { Undefined, Str("gpt-4o"), Str("gpt-4x") }
ChatBodies == { [prompt |-> p, model |-> m] : p \in ChatPrompts, m \in ChatModels }

ChatRequest(body) ==
    /\ http.cache.chats < MaxChats
    /\ Commit([World EXCEPT !.http.cache = chatRequest(@, body)])

ClockTick ==
    /\ http.cache.now < MaxClock
    /\ Commit([World EXCEPT !.http.cache.now = @ + ClockStep])

NextCache ==
    \/ \E body \in ChatBodies : ChatRequest(body)
    \/ ClockTick

SpecCache == Init /\ [][NextCache]_vars

(***************************************************************************)
(* The standby of part_000 after a hot swap                                *)
(***************************************************************************)
\* part_000 is started; up to MaxStandbyFailures session inits give up, every
\* later one logs in
StandbyInit ==
    /\ shape = "dual"
    /\ LET w == [Started EXCEPT !.faults.allowed = MaxStandbyFailures] IN
       /\ pool = w.pool
       /\ sessions = w.sessions
       /\ pending = w.pending
       /\ initSettled = w.initSettled
       /\ rotation = w.rotation
       /\ retryTimers = w.retryTimers
       /\ chatStore = w.chatStore
       /\ initCalls = w.initCalls
       /\ faults = w.faults
       /\ http = w.http
       /\ tasks = w.tasks
    /\ mail = NewMail

\* the pool's init, the Guard's invocations with the results they may get, and
\* the background creation of the standby with its one retry
NextStandby ==
    \/ \E i \in Created, order \in Orders : \E out \in CreateOutcomes(i) :
           InitSessionDone(i, out, order)
    \/ \E i \in Created : \E out \in CreateOutcomes(i) : OrphanCreated(i, out)
    \/ \E t \in Tasks : \E kind \in Kinds[t] : Start(t, kind)
    \/ \E t \in Tasks : \E r \in PoolResults : Resolved(t, r)
    \/ \E t \in Tasks : TimerFired(t)
    \/ \E i \in Created : \E out \in CreateOutcomes(i) : StandbyCreated(i, out)
    \/ StandbyRetryTimer
    \/ \E i \in Created : \E out \in CreateOutcomes(i) : StandbyRetried(i, out)

\* a createSession that is awaited settles, and a timer that is set fires; the
\* event loop runs whatever is ready to run
StandbyFairness ==
    /\ WF_vars(NextStandby)
    /\ WF_vars(\E i \in Created : \E out \in CreateOutcomes(i) : StandbyCreated(i, out))
    /\ WF_vars(StandbyRetryTimer)
    /\ WF_vars(\E i \in Created : \E out \in CreateOutcomes(i) : StandbyRetried(i, out))

SpecStandby == StandbyInit /\ [][NextStandby]_vars /\ StandbyFairness

(***************************************************************************)
(* TempMailHelper.init, attempt by attempt                                 *)
(***************************************************************************)
\* what an element of the mailbox page may show
MailTexts ==
    { "", "  ", "Loading", "kim@22.do", "joe@gmail.com.ru",
      "Address: Tom.Lee@GMail.com ", "ann@googlemail.com" }

\* the texts of the elements one iteration finds, in the order of the selectors
MailPages == {<<>>} \cup {<<a>> : a \in MailTexts}
                   \cup {<<a, b>> : a \in MailTexts, b \in MailTexts}

MailOpen(ok) ==
    /\ mail.pc = "new"
    /\ mail' = mailOpen(mail, ok)
    /\ UNCHANGED <<shape, pool, sessions, pending, initSettled, rotation, retryTimers,
                   chatStore, initCalls, faults, http, tasks>>

MailAttempt(texts) ==
    /\ mail.pc = "polling"
    /\ mail' = mailScan(mail, texts)
    /\ UNCHANGED <<shape, pool, sessions, pending, initSettled, rotation, retryTimers,
                   chatStore, initCalls, faults, http, tasks>>

MailAttemptThrew ==
    /\ mail.pc = "polling"
    /\ mail' = mailAttemptThrew(mail)
    /\ UNCHANGED <<shape, pool, sessions, pending, initSettled, rotation, retryTimers,
                   chatStore, initCalls, faults, http, tasks>>

NextMail ==
    \/ \E ok \in BOOLEAN : MailOpen(ok)
    \/ \E texts \in MailPages : MailAttempt(texts)
    \/ MailAttemptThrew

SpecMail == Init /\ [][NextMail]_vars

(***************************************************************************)
(* Properties                                                              *)
(***************************************************************************)
\* what the model recorded of the failure task t handled last
H(t) == tasks[t].handled

\* C1: whatever the invocations through the Execution Guard do (succeed,
\* resolve with a limit error in the result, throw, get retried after a
\* rotation), no session's activeRequests counter is ever below 0.
C1_ActiveRequestsNonNegative ==
    \A i \in Created : sessions[i].activeRequests >= 0

\* C2: in the single pool the calls of rotateOnLimitError() outstanding at the
\* same time all hold the promise of the one rotation in progress; that rotation
\* closes the old primary at most once and creates exactly one session; and the
\* callers of one rotation all find the same primary when it resolves.
C2_OneReplacement ==
    shape = "single" =>
        /\ rotation.closed <= 1
        /\ rotation.created <= 1
        /\ (rotation.pc = "idle" /\ rotation.started > 0) => rotation.created = 1
        /\ \A t \in Tasks :
               tasks[t].pc = "rotate:wait" =>
                   /\ pool.isRotating
                   /\ tasks[t].wait # 0
                   /\ tasks[t].wait = pool.rotationPromise
        /\ Cardinality({t \in Tasks : tasks[t].pc = "rotate:wait"}) <= rotation.callers
        /\ \A t, u \in Tasks :
               (/\ H(t).promise # 0
                /\ H(t).promise = H(u).promise
                /\ H(t).after # -1
                /\ H(u).after # -1) => H(t).after = H(u).after

\* C2, its case: every caller asked for the same rotation, which served them
\* all, and they found the same new primary when it resolved
C2_Witness ==
    /\ shape = "single"
    /\ rotation.callers = Cardinality(Tasks)
    /\ rotation.closed = 1
    /\ \E p \in 1..rotation.started : \E i \in Created :
           /\ sessions[i].by = "rotateOnLimitError"
           /\ \A t \in Tasks : H(t).promise = p /\ H(t).after = i

\* C3: in the dual pool, callers whose invocations failed on the same active
\* session and of which one calls forceRotate() while no replacement standby
\* exists observe one swap: none of the calls throws and all of them find the
\* same active session afterwards.
C3_OneSwap ==
    shape = "dual" =>
        \A t, u \in Tasks :
            (/\ t # u
             /\ H(t).on # 0
             /\ H(t).on = H(u).on
             /\ H(t).after # -1
             /\ H(u).after # -1
             /\ H(t).swapFrom = 0 \/ H(u).swapFrom = 0)
            => /\ H(t).threw = NoError
               /\ H(u).threw = NoError
               /\ H(t).after = H(u).after

\* init() has resolved successfully at least once
initResolved == \E k \in DOMAIN initSettled : initSettled[k].ok

\* C4: once init() has resolved, the pool has an active session at every
\* moment: its primary/active reference is never null.
C4_ExactlyOneActive ==
    initResolved => activeRef(World) # 0

\* C5: when the Guard has handled a failure whose result or error contained
\* "quota" with retries available, the pool's active session is another
\* session than the one active before (stated for the runs in which every
\* session creation succeeded).
C5_QuotaRotates ==
    faults.creations = 0 =>
        \A t \in Tasks :
            (H(t).quota /\ H(t).after # -1)
            => /\ H(t).after # 0
               /\ H(t).after # H(t).before

\* C6: safeExecute attempts an invocation at most MAX_RETRIES + 1 times and asks
\* for at most MAX_RETRIES rotations; once the last attempt is over it has ended,
\* with an error raised to the caller unless that attempt resolved with a result
\* that holds no limit error.
C6_RetryBound ==
    \A t \in Tasks :
        tasks[t].kind = "exec" =>
            /\ tasks[t].attempts <= MAX_RETRIES + 1
            /\ tasks[t].rotations <= MAX_RETRIES
            /\ (tasks[t].attempts = MAX_RETRIES + 1 /\ tasks[t].pc # "running")
               => /\ tasks[t].pc = "done"
                  /\ \/ tasks[t].outcome = "error"
                     \/ /\ tasks[t].outcome = "result"
                        /\ tasks[t].result = tasks[t].resolved
                        /\ ~ IF shape = "single"
                             THEN ResultLimitSingle[tasks[t].result]
                             ELSE ResultLimitDual[tasks[t].result]

\* C6, its case: an invocation failed on every attempt with a recoverable
\* error; safeExecute made three attempts and two rotations and raised
C6_Witness ==
    \E t \in Tasks :
        /\ tasks[t].kind = "exec"
        /\ tasks[t].pc = "done"
        /\ tasks[t].attempts = MAX_RETRIES + 1
        /\ tasks[t].rotations = MAX_RETRIES
        /\ tasks[t].outcome = "error"
        /\ IF shape = "single" THEN RecoverableSingle[tasks[t].err]
           ELSE RecoverableDual[tasks[t].err]

\* the invocation of safeExecute by t threw 'insufficient_funds: quota exceeded'
\* first, in the dual pool with a standby the Guard's forceRotate() still found,
\* and the rotation for that failure is done
scenarioC(t) ==
    /\ shape = "dual"
    /\ tasks[t].kind = "exec"
    /\ tasks[t].failure = Err("Error", "insufficient_funds: quota exceeded")
    /\ tasks[t].rotations = 1
    /\ H(t).after # -1
    /\ H(t).standby # 0
    /\ H(t).swapFrom = H(t).standby

\* C7: in Scenario C the Guard has rotated once without an error, the retry
\* runs on the session that was the standby when the invocation failed, and
\* the caller gets what the retry gives: its result when it resolves with one
\* that holds no limit error, and an error only when the retry itself throws
\* one that is not recoverable, never the quota error of the first attempt or
\* an error of the rotation.
C7_ScenarioC ==
    \A t \in Tasks :
        scenarioC(t) =>
            /\ H(t).threw = NoError
            /\ tasks[t].attempts = 2
            /\ tasks[t].got.session = H(t).standby
            /\ H(t).after = H(t).standby
            /\ tasks[t].pc = "done"
               => \/ /\ tasks[t].outcome = "result"
                     /\ tasks[t].result = tasks[t].resolved
                     /\ ~ResultLimitDual[tasks[t].result]
                     /\ tasks[t].err = tasks[t].failure
                  \/ /\ tasks[t].outcome = "error"
                     /\ tasks[t].err \in PoolThrown
                     /\ ~RecoverableDual[tasks[t].err]

\* C7, its case: Scenario C has run to its end
C7_Witness ==
    \E t \in Tasks :
        /\ scenarioC(t)
        /\ tasks[t].pc = "done"
        /\ tasks[t].outcome = "result"
        /\ sessions[H(t).on].status = "dead"

\* C8: a session getSession() returns is, at that moment, the pool's current
\* primary/active session, ready and not closed: never one that a rotation
\* has rotated out.
C8_AcquiredIsCurrent ==
    \A t \in Tasks :
        tasks[t].got.session # 0 =>
            /\ tasks[t].got.current
            /\ tasks[t].got.isReady
            /\ tasks[t].got.status = "ready"

\* C8, its case: a rotation has resolved for t, the session it replaced is
\* closed, and the getSession() t made afterwards returned the new session
C8_Witness ==
    \E t \in Tasks :
        /\ H(t).after > 0
        /\ H(t).on # 0
        /\ sessions[H(t).on].status = "dead"
        /\ tasks[t].attempts >= 2
        /\ tasks[t].got.session = H(t).after
        /\ tasks[t].got.session # H(t).on

\* the sessions init() launches: one primary, or an active and a standby
InitialSessions == IF shape = "single" THEN 1 ELSE 2

\* C9: however often init() is called, the pool launches its initial
\* session(s) once (stated for the runs in which no session creation failed).
C9_InitOnce ==
    faults.creations = 0 => Len(sessions) <= InitialSessions

\* C10: getSession() returns a session that is ready (isReady, status 'ready',
\* token set) after at most one recovery attempt, or throws one of the pool's
\* errors 'Session unavailable after recovery attempt' / 'No sessions
\* available'.
C10_ReadyOrUnavailable ==
    \A t \in Tasks :
        /\ tasks[t].recoveries <= 1
        /\ tasks[t].got.thrown \in {NoError, SessionUnavailable, NoSessionsAvailable}
        /\ tasks[t].got.session # 0 =>
               /\ tasks[t].got.isReady
               /\ tasks[t].got.status = "ready"
               /\ tasks[t].got.token # Null

\* C11: at every moment every session has a token exactly when its status is
\* 'ready': none while it is initializing, none once it has been closed.
C11_TokenIffReady ==
    \A i \in Created :
        (sessions[i].token # Null) <=> (sessions[i].status = "ready")

longEnough(v) ==
    /\ v.t = "string"
    /\ Len(v.s) >= 21
    /\ v.s \notin {"{}", "null", "undefined", ""}

\* C13: the validation of updateToken and of the login loop rejects every
\* candidate whose canonical string has fewer than 21 characters (a string of
\* exactly 20 included) and every candidate that is '{}', 'null', 'undefined'
\* or '': what updateToken accepted is the pool's cached token, what the login
\* loop accepted is the session's token, so both always hold a string of 21
\* characters or more.
C13_ValidationRejectsShort ==
    /\ pool.tokenCache # Null => longEnough(pool.tokenCache)
    /\ \A i \in Created : sessions[i].token # Null => longEnough(sessions[i].token)

\* the canonical string of an object by the rule of the specification: the
\* first non-empty one of token, value, auth_token, else the JSON text
canonicalOf(o) ==
    LET present == SelectSeq(<<o.token, o.value, o.auth_token>>, LAMBDA f : f # "")
    IN IF present # <<>> THEN Head(present) ELSE JSONstringifyObject(o)

\* C14: when the raw credential is an object, its canonical string is the
\* first non-empty field among token, value, auth_token in that order, and the
\* JSON text of the whole object only if none is there: a POST /api/auth/token
\* of an object whose canonical string has more than 20 characters leaves
\* exactly that string in the pool's cache, and the login loop of a session
\* whose page shows {value: T, id: "u1"} takes T as the session's token.
C14_ObjectCanonical ==
    [][ /\ ( /\ shape = "single"
             /\ http'.requests = http.requests + 1
             /\ http'.token.t = "object"
             /\ Len(canonicalOf(http'.token)) > 20 )
           => pool'.tokenCache = Str(canonicalOf(http'.token))
        /\ \A i \in 1..Len(sessions) :
             (sessions[i].token = Null /\ sessions'[i].token # Null)
                => sessions'[i].token = LoginToken(i)
      ]_vars

\* an object without token, with value and auth_token, was posted and its
\* value is the cached token
C14_Witness ==
    /\ http.token = Obj("", Token32, Token21, "")
    /\ pool.tokenCache = Str(Token32)

\* C15: updateToken(candidate) leaves the pool's cached token and the
\* persistent store as they are when the candidate is empty, invalid (its
\* canonical string is not one the validation of the specification lets
\* through) or equal to the cached token; any other candidate becomes the
\* cached token and is saved exactly once, as its canonical string.
C15_UpdateTokenFrame ==
    [][ ( shape = "single" /\ http'.requests = http.requests + 1 ) =>
          LET candidate == http'.token
              canonical == IF candidate.t = "object"
                           THEN Str(canonicalOf(candidate)) ELSE candidate
              ignored == \/ falsy(candidate)
                         \/ ~longEnough(canonical)
                         \/ canonical = pool.tokenCache
          IN IF ignored
             THEN pool'.tokenCache = pool.tokenCache /\ chatStore' = chatStore
             ELSE /\ pool'.tokenCache = canonical
                  /\ chatStore' = [lastToken |-> canonical,
                                   saves |-> chatStore.saves + 1]
      ]_vars

\* how often the login loop of session s has raised 'Login Timeout': once in
\* every attempt of init() before the current one, and in the current one when
\* all its ticks are used up
LoginTimeouts(s) == (s.attempt - 1) + (IF s.tick = LoginTicks(shape) THEN 1 ELSE 0)

\* C16 as stated: a session whose login loop saw no valid credential for its
\* whole tick bound, and so raised 'Login Timeout', is 'dead' once the error
\* has been raised.
C16_DeadOnceRaised ==
    \A i \in Created : LoginTimeouts(sessions[i]) > 0 => sessions[i].status = "dead"

\* C16, amended: the loop raises 'Login Timeout' after its tick bound into
\* init(), which starts over up to maxRetries attempts with the session still
\* 'initializing'; the session is 'dead' once the loop has raised in attempt
\* maxRetries, and not before.
C16_DeadAfterLastAttempt ==
    \A i \in Created :
        /\ LoginTimeouts(sessions[i]) = maxRetries => sessions[i].status = "dead"
        /\ LoginTimeouts(sessions[i]) \in 1..(maxRetries - 1)
              => sessions[i].status \in {"initializing", "ready"}
        /\ LoginTimeouts(sessions[i]) <= maxRetries

\* a session is dead after its login loop timed out in every attempt
C16_Witness ==
    \E i \in Created : /\ sessions[i].attempt = maxRetries
                       /\ sessions[i].tick = LoginTicks(shape)
                       /\ sessions[i].status = "dead"
                       /\ sessions[i].token = Null

\* C17: when getSession() fails with the pool-unavailable error after its one
\* recovery attempt, the Guard propagates that error to the caller at once: the
\* invocation is over with exactly that error, with no backoff, rotation or
\* retry after it.
\* (Of the two pools only part_000 ever raises it, as 'No sessions available':
\* the getSession() of src/server.js either gets a ready primary from its
\* forceRotate() or fails with the error forceRotate() threw.)
C17_PoolUnavailableFatal ==
    \A t \in Tasks :
        tasks[t].got.thrown \in {SessionUnavailable, NoSessionsAvailable}
           => /\ tasks[t].pc = "done"
              /\ tasks[t].outcome = "error"
              /\ tasks[t].err = tasks[t].got.thrown

\* an invocation through safeExecute ended with the pool-unavailable error its
\* getSession() threw
C17_Witness ==
    \E t \in Tasks : /\ tasks[t].kind = "exec"
                     /\ tasks[t].got.thrown = NoSessionsAvailable
                     /\ tasks[t].outcome = "error"
                     /\ tasks[t].err = NoSessionsAvailable

\* results that carry a structured error whose text holds none of the limit
\* signals of the specification
OtherErrorResults ==
    { r \in Results : /\ r.kind # "ok"
                      /\ LET text == toLowerCase(r.message) IN
                         ~ \/ includes(text, "insufficient_funds")
                           \/ includes(text, "usage-limited")
                           \/ includes(text, "limit")
                           \/ includes(text, "quota") }

\* C18: a result that carries a structured error matching none of the limit
\* signals is returned to the caller as it is: in the step in which the
\* invocation of task t resolves with it, the invocation ends with that very
\* result, the Guard starts no rotation and no retry, and the pool's sessions
\* (active and standby) are the same before and after.
C18_OtherErrorReturned ==
    [][ \A t \in Tasks :
          ( /\ tasks[t].pc = "running"
            /\ tasks'[t].pc # "running"
            /\ tasks'[t].resolved \in OtherErrorResults )
          => /\ tasks'[t].pc = "done"
             /\ tasks'[t].outcome = "result"
             /\ tasks'[t].result = tasks'[t].resolved
             /\ tasks'[t].attempts = tasks[t].attempts
             /\ tasks'[t].rotations = tasks[t].rotations
             /\ pool' = pool
             /\ rotation' = rotation
             /\ Len(sessions') = Len(sessions)
      ]_vars

\* an invocation resolved with 'Invalid prompt' and returned it, in both Guards
C18_Witness ==
    \E t \in Tasks : /\ tasks[t].outcome = "result"
                     /\ tasks[t].result = Result("string", "Invalid prompt")
                     /\ tasks[t].kind = "exec"
                     /\ tasks[t].attempts = 1

\* C19: when an invocation through safeExecute ends with an error (one that is
\* not recoverable, or a recoverable one after the retry bound), the error
\* raised to the caller is exactly the error its catch block received from the
\* failed attempt: the backoff and the rotation of the recovery path never put
\* another error in its place.
C19_ErrorUnchanged ==
    \A t \in Tasks :
        (tasks[t].kind = "exec" /\ tasks[t].outcome = "error")
           => tasks[t].err = tasks[t].caught

\* C20: in the dual pool a hot swap lets the invocations in flight on the old
\* active session drain: a step that closes a session's browser leaves no
\* invocation counted in on that session (its activeRequests is not above 0
\* when the browser is closed).
C20_DrainBeforeClose ==
    [][ shape = "dual" =>
          \A i \in 1..Len(sessions) :
              (sessions[i].browser /\ ~sessions'[i].browser)
                 => sessions'[i].activeRequests <= 0
      ]_vars

\* the sessions a rotation of the single pool (forceRotate or the IIFE of
\* rotateOnLimitError) is creating at this moment
RotationCreations == {i \in Created : pending[i] \in {"forceRotate", "rotation"}}

\* C21: in the single pool forceRotate() is reentrant-safe: a caller that
\* arrives while another forceRotate() or rotateOnLimitError() is in progress
\* waits for it and starts no second session creation, so at no moment are two
\* sessions being created by rotations.
C21_ForceRotateSingleFlight ==
    shape = "single" => Cardinality(RotationCreations) <= 1

\* C22: session ids are unique and strictly increasing in the order in which
\* the sessions were created (the order of the sequence sessions), also for
\* sessions created concurrently; every id is one the counter has handed out.
C22_UniqueIncreasingIds ==
    /\ \A i, j \in Created : i < j => sessions[i].id < sessions[j].id
    /\ \A i \in Created : sessions[i].id \in 1..pool.sessionCounter

\* sessions with ids in creation order are being created at the same time, the
\* later one by a rotation
C22_Witness ==
    \E i, j \in Created : /\ i < j
                          /\ sessions[i].id < sessions[j].id
                          /\ pending[i] # "" /\ pending[j] # ""
                          /\ sessions[j].by # "init"

\* the accepted-domain predicate of the specification
acceptedDomain(address) ==
    LET lower == toLowerCase(address)
        n == Len(lower)
    IN \/ n >= 10 /\ SubSeq(lower, n - 9, n) = "@gmail.com"
       \/ n >= 15 /\ SubSeq(lower, n - 14, n) = "@googlemail.com"

\* C23: TempMailHelper.init never returns an address that fails the
\* accepted-domain predicate; the address it returns is the one it extracted
\* last; every address it turned down made it ask for a new one and used up one
\* attempt, after which it went on polling (so after three rejected addresses it
\* returns an accepted fourth); and it gives up with its fatal error exactly
\* when maxAttempts attempts went by without an accepted address.
C23_OnlyAcceptedAddress ==
    /\ mail.pc = "returned"
          => /\ acceptedDomain(mail.email)
             /\ mail.email = mail.extracted
             /\ mail.i < maxAttempts
    /\ mail.pc # "returned" => mail.email = ""
    /\ mail.reloads = mail.rejected
    /\ mail.rejected <= mail.i
    /\ mail.rejected > 0 /\ mail.pc # "returned" => ~acceptedDomain(mail.extracted)
    /\ mail.pc = "polling" => mail.i < maxAttempts
    /\ (mail.pc = "failed" /\ mail.err = MailGaveUp) <=> mail.i = maxAttempts

\* three addresses were turned down one after the other, and the fourth, an
\* accepted one, was returned
C23_Witness ==
    /\ mail.pc = "returned"
    /\ mail.rejected = 3
    /\ mail.i = 3
    /\ mail.email = "Tom.Lee@GMail.com"

\* C24: at every observation point every session's status is one of
\* 'initializing', 'ready', 'dead' (no other value, such as 'retiring', is ever
\* assigned), and its isReady flag is true exactly when its status is 'ready'.
C24_StatusEnum ==
    \A i \in Created :
        /\ sessions[i].status \in {"initializing", "ready", "dead"}
        /\ sessions[i].isReady <=> sessions[i].status = "ready"

\* sessions in each of the three states at once: one closed after it was
\* ready, one ready, one still logging in
C24_Witness ==
    \E i, j, k \in Created :
        /\ sessions[i].status = "dead" /\ sessions[i].token # Null
        /\ sessions[j].status = "ready" /\ sessions[j].isReady
        /\ sessions[k].status = "initializing" /\ ~sessions[k].isReady

\* results whose embedded error, a string or an object with a message, holds
\* one of the limit signals in its text
LimitResults ==
    { r \in Results : /\ r.kind \in {"string", "object"}
                      /\ LET text == toLowerCase(r.message) IN
                         \/ includes(text, "insufficient_funds")
                         \/ includes(text, "usage-limited")
                         \/ includes(text, "limit")
                         \/ includes(text, "quota") }

\* C25: safeExecute detects a limit condition in a result whatever the shape of
\* the embedded error: in the step in which an invocation through safeExecute
\* resolves with a result of LimitResults, the result is not returned; the
\* catch block has received the limit-reached error and the invocation is in
\* the recovery path (backoff) or, with no retries left, has raised that error.
C25_LimitInAnyShape ==
    [][ \A t \in Tasks :
          ( /\ tasks[t].kind = "exec"
            /\ tasks[t].pc = "running"
            /\ tasks'[t].pc # "running"
            /\ tasks'[t].resolved \in LimitResults )
          => /\ tasks'[t].outcome # "result"
             /\ includes(tasks'[t].caught.message, "LIMIT_REACHED")
             /\ tasks'[t].pc = "backoff" \/ tasks'[t].err = tasks'[t].caught
      ]_vars

\* C26: every finished attempt of safeExecute leaves the session's
\* activeRequests counter where it was before the attempt: the step in which an
\* attempt that was counted in on a session ends (normal return, limit error
\* found in the result, thrown error) counts it out exactly once.
C26_CountedOutOnce ==
    [][ \A t \in Tasks :
          ( /\ tasks[t].kind = "exec"
            /\ tasks[t].pc = "running"
            /\ tasks'[t].pc # "running" )
          => sessions'[tasks[t].session].activeRequests
                = sessions[tasks[t].session].activeRequests - 1
      ]_vars

\* C27: BrowserSession.init makes at most maxRetries (3) attempts.  A step that
\* starts a next attempt of a session whose init is running leaves the browser
\* closed with the handles reset, the session initializing and its creation
\* still running; the session becomes dead and its creation settles with the
\* failure only in a step taken in attempt maxRetries.
C27_ThreeAttempts ==
    [][ \A i \in Created :
          pending[i] \in {"init", "orphan"} =>
            /\ sessions[i].attempt \in 1..maxRetries
            /\ sessions'[i].attempt # sessions[i].attempt
                 => /\ sessions'[i].attempt = sessions[i].attempt + 1
                    /\ sessions'[i].attempt <= maxRetries
                    /\ ~sessions'[i].browser
                    /\ sessions'[i].phase = "launch"
                    /\ sessions'[i].status = "initializing"
                    /\ pending'[i] = pending[i]
            /\ sessions'[i].status = "dead"
                 => /\ sessions[i].attempt = maxRetries
                    /\ ~sessions'[i].browser
                    /\ pending'[i] = ""
            /\ (pending'[i] = "" /\ ~sessions'[i].isReady)
                 => /\ sessions[i].attempt = maxRetries
                    /\ sessions'[i].status = "dead"
      ]_vars

\* a session is dead after its third attempt ran into the login timeout, and
\* another is in its second attempt with a new browser
C27_Witness ==
    \E i, j \in Created :
        /\ sessions[i].status = "dead"
        /\ sessions[i].tick = LoginTicks(shape)
        /\ sessions[i].attempt = maxRetries
        /\ ~sessions[i].browser
        /\ sessions[j].attempt = 2
        /\ sessions[j].browser

\* C28: within one execution of the login loop performRegistration is called
\* at most once, whatever the page shows in later ticks and however the call
\* ended: the calls counted for the running loop never exceed one, and one
\* call is counted exactly when registrationAttempted is set.
C28_RegistrationOnce ==
    \A i \in Created :
        /\ sessions[i].registration.calls <= 1
        /\ sessions[i].registrationAttempted <=> sessions[i].registration.calls = 1
        /\ sessions[i].registration.calls = 1
             => sessions[i].registration.outcome \in RegistrationOutcomes

\* the loop has polled two more ticks after a registration that failed
C28_Witness ==
    \E i \in Created :
        /\ sessions[i].phase = "login"
        /\ sessions[i].registration.calls = 1
        /\ sessions[i].registration.outcome \in RegistrationFailures
        /\ sessions[i].tick > sessions[i].registration.tick + 2

\* C29: a failure inside the registration flow neither aborts the login loop
\* nor reaches init(): the tick in which performRegistration fails goes on to
\* the next tick of the same attempt with the browser open (unless it was the
\* last tick of the loop), and while the loop runs after the failure the
\* session is initializing with its creation pending; the session is dead after
\* a failed registration only when the loop has run out of ticks or
\* injectHelpers has thrown in a later tick.
C29_RegistrationFailureContained ==
    [][ \A i \in Created :
          /\ ( /\ sessions'[i].registration.calls = sessions[i].registration.calls + 1
               /\ sessions'[i].registration.outcome \in RegistrationFailures
               /\ sessions[i].tick + 1 < LoginTicks(shape) )
             => /\ sessions'[i].tick = sessions[i].tick + 1
                /\ sessions'[i].attempt = sessions[i].attempt
                /\ sessions'[i].phase = "login"
                /\ sessions'[i].browser
                /\ sessions'[i].status = "initializing"
                /\ pending'[i] = pending[i]
          /\ ( /\ sessions[i].phase = "login"
               /\ sessions[i].registration.outcome \in RegistrationFailures )
             => /\ sessions[i].status = "initializing"
                /\ sessions[i].browser
                /\ pending[i] \in {"init", "orphan"}
      ]_vars

\* a session is ready by a token seen in a tick after its registration failed
C29_Witness ==
    \E i \in Created :
        /\ sessions[i].status = "ready"
        /\ sessions[i].isReady
        /\ sessions[i].registration.outcome \in RegistrationFailures
        /\ sessions[i].tick > sessions[i].registration.tick

\* C30: 'dead' is terminal.  A session that is dead stays dead and not ready;
\* a step that changes the pool's primary, active or standby reference does
\* not make it refer to a dead session; and getSession() returns no dead
\* session.
C30_DeadIsTerminal ==
    [][ /\ \A i \in Created :
             sessions[i].status = "dead"
               => sessions'[i].status = "dead" /\ ~sessions'[i].isReady
        /\ \A ref \in {"primary", "active", "standby"} :
             (pool'[ref] # pool[ref] /\ pool'[ref] # 0)
               => sessions'[pool'[ref]].status # "dead"
        /\ \A t \in Tasks :
             (tasks'[t].got # tasks[t].got /\ tasks'[t].got.session # 0)
               => tasks'[t].got.status # "dead"
      ]_vars

\* one session is dead by a close after it was ready, one by an init that gave
\* up, and the pool has installed a later session, which is ready
C30_Witness ==
    \E i, j, k \in Created :
        /\ sessions[i].status = "dead" /\ sessions[i].token # Null
        /\ sessions[j].status = "dead" /\ sessions[j].token = Null
        /\ k > i /\ k > j
        /\ k \in {pool.primary, pool.active}
        /\ sessions[k].status = "ready"

\* C31: BrowserSession.close() is idempotent: a step in which close() is
\* called on a session that was closed before (forceRotate and the rotation of
\* rotateOnLimitError closing the same old primary) leaves the session dead,
\* not ready and with the token and browser state the first call left, and the
\* caller goes on as after a first close (nothing is thrown): the rotation or
\* the forceRotate that called it awaits the close.
C31_CloseIdempotent ==
    [][ \A i \in Created :
          (sessions[i].closes >= 1 /\ sessions'[i].closes > sessions[i].closes)
            => /\ sessions[i].status = "dead"
               /\ sessions'[i] = [sessions[i] EXCEPT
                                     !.closes = sessions'[i].closes,
                                     !.activeRequests = sessions'[i].activeRequests]
               /\ \/ rotation.pc = "delay" /\ rotation'.pc = "closing"
                  \/ \E t \in Tasks : tasks'[t].pc = "forceRotate:close"
      ]_vars

\* a session has been closed twice and is dead and not ready
C31_Witness ==
    \E i \in Created :
        /\ sessions[i].closes >= 2
        /\ sessions[i].status = "dead"
        /\ ~sessions[i].isReady

\* C32: on every recoverable error with retries left safeExecute runs its
\* recovery in the order backoff, rotation, retry.  The backoff it enters lasts
\* backoffDelay(retryCount), longer than the one before; the Guard calls the
\* rotation only in the step in which its backoff timer fires; and the step in
\* which the rotation call of the Guard ends (the promise it awaits settles, or
\* the swap returns or throws) is the one that starts the retry, never another.
C32_BackoffRotateRetry ==
    [][ \A t \in Tasks :
          tasks[t].kind = "exec" =>
            /\ (tasks[t].pc # "backoff" /\ tasks'[t].pc = "backoff")
                 => /\ tasks[t].retryCount < MAX_RETRIES
                    /\ tasks'[t].delay = backoffDelay(tasks[t].retryCount)
                    /\ tasks'[t].delay > tasks[t].delay
            /\ tasks'[t].rotations # tasks[t].rotations
                 => /\ tasks[t].pc = "backoff"
                    /\ tasks'[t].rotations = tasks[t].rotations + 1
            /\ tasks'[t].retryCount > tasks[t].retryCount
                 => /\ tasks[t].pc \in {"backoff", "rotate:wait", "hotSwap:wait"}
                    /\ tasks'[t].retryCount = tasks[t].retryCount + 1
                    /\ tasks'[t].rotations = tasks'[t].retryCount
                    /\ tasks[t].pc = "rotate:wait"
                         => rotation'.settled = tasks[t].wait
            /\ ( \/ tasks[t].pc = "backoff"
                      /\ tasks'[t].pc \notin {"backoff", "rotate:wait", "hotSwap:wait"}
                 \/ tasks[t].pc \in {"rotate:wait", "hotSwap:wait"}
                      /\ tasks'[t].pc # tasks[t].pc )
                 => tasks'[t].retryCount = tasks[t].retryCount + 1
      ]_vars

\* C33: in the dual pool, after every hot swap a ready standby is eventually
\* installed again, when only finitely many session creations fail: whenever
\* the background createSession('standby') of a hot swap is running, the pool
\* later has a standby that is ready.
C33_StandbyRestored ==
    (\E i \in Created : sessions[i].by = "hotSwap" /\ pending[i] = "standby")
      ~> (pool.standby # 0 /\ sessions[pool.standby].isReady)

\* C34: no live session is orphaned: every session with a running browser is
\* referenced by the pool (primary, active or standby) or is being created for
\* an owner that will install it.
C34_NoOrphanedSession ==
    \A i \in Created :
        sessions[i].browser
          => \/ i \in {pool.primary, pool.active, pool.standby}
             \/ pending[i] \notin {"", "orphan"}

\* C35: the mailbox of a registration attempt is discarded when the attempt
\* ends: after every performRegistration() that has returned, the mailbox tab
\* its TempMailHelper opened is closed.
C35_MailboxDiscarded ==
    \A i \in Created :
        sessions[i].registration.calls >= 1
          => sessions[i].registration.mailPage = "closed"

\* C36: a rotation the Guard requests because an invocation failed on session
\* S closes no session other than S: in a step that closes a ready session, an
\* invocation whose failure on that session is being handled has asked for it.
C36_RotationClosesFailedSession ==
    [][ \A i \in Created :
          (sessions[i].status = "ready" /\ sessions'[i].status = "dead")
            => \E t \in Tasks :
                 /\ tasks'[t].handled.on = i
                 /\ tasks'[t].pc \notin {"idle", "done"}
      ]_vars

\* the step in which the createSession of the rotation of rotateOnLimitError
\* settles with a failure
RotationCreationFailed ==
    /\ rotation.pc = "creating"
    /\ rotation'.pc # "creating"
    /\ faults'.creations = faults.creations + 1

\* C37: when session creation fails during rotateOnLimitError(), the rotation
\* promise still resolves, isRotating is cleared and rotationPromise reset,
\* and the pool is left with primary = null: a getSession() that waited for
\* the rotation runs its own recovery and gets no dead session.
C37_FailedRotationLeavesNoPrimary ==
    [][ RotationCreationFailed =>
          /\ rotation'.settled = pool.rotationPromise
          /\ ~pool'.isRotating
          /\ pool'.rotationPromise = 0
          /\ pool'.primary = 0
          /\ \A t \in Tasks :
               tasks[t].pc \in {"getSession:rotation", "rotate:wait"}
                 => /\ tasks'[t].pc \in {"forceRotate:create", "stream:wait"}
                    /\ tasks'[t].kind = "exec" => tasks'[t].recoveries = 1
      ]_vars

\* C38: every streaming chat request ends its response stream exactly once and
\* makes at most MAX_RETRIES + 1 streaming attempts: res.end() is never
\* reached twice, and a streaming request whose executeStream is over has
\* reached it.
C38_StreamEndsOnce ==
    \A t \in Tasks :
        tasks[t].kind = "stream" =>
            /\ tasks[t].res.ends <= 1
            /\ tasks[t].attempts <= MAX_RETRIES + 1
            /\ tasks[t].pc = "done" => tasks[t].res.ends = 1

\* C39: the response cache serves a cached chat response only to a request
\* identical to the one that produced it: a response served from the cache was
\* made for the same prompt and the same model (requests that differ in either
\* never share a cache key), and it is younger than CACHE_TTL.
C39_CacheServesSameRequest ==
    http.cache.served.hit
      => /\ http.cache.served.data = http.cache.served.request
         /\ http.cache.served.age < CACHE_TTL

\* C40: in the pool of src/server.js, in every state between two turns of the
\* event loop, isRotating is true exactly when rotationPromise is set; and a
\* getSession() called while a rotateOnLimitError() rotation is in progress
\* (from a new request or from a stream's retry) neither returns a session nor
\* starts a recovery nor waits for init(): it awaits that rotation's promise.
C40_RotationFlagsAgree ==
    /\ [](shape = "single" => (pool.isRotating <=> pool.rotationPromise # 0))
    /\ [][(/\ shape = "single"
           /\ pool.isRotating
           /\ pool'.isRotating
           /\ pool'.rotationPromise = pool.rotationPromise)
          => \A t \in Tasks :
               (/\ tasks[t].pc \in {"idle", "stream:wait"}
                /\ tasks'[t].pc \in {"running", "getSession:init", "getSession:rotation",
                                     "forceRotate:close", "forceRotate:create",
                                     "backoff", "failed"})
               => /\ tasks'[t].pc = "getSession:rotation"
                  /\ tasks'[t].wait = pool.rotationPromise
                  /\ tasks'[t].attempts = tasks[t].attempts]_vars

\* a rotation is in progress and a getSession() that started during it awaits
\* its promise
C40_Witness ==
    /\ shape = "single"
    /\ pool.isRotating
    /\ pool.rotationPromise # 0
    /\ rotation.pc # "idle"
    /\ \E t \in Tasks : /\ tasks[t].pc = "getSession:rotation"
                        /\ tasks[t].wait = pool.rotationPromise

====
